---- MODULE Spec2Model ----
(***************************************************************************)
(* ABC (Source System) -> GoHighLevel (Target System) member sync server.  *)
(* The module models src/server.js: the paginated Source fetchers and      *)
(* their local filters, the contact upsert (syncContactToGHL), the         *)
(* tag-only write (addTagToContact) and the per-club batch loops of the    *)
(* sync endpoints.                                                         *)
(*                                                                         *)
(* JavaScript strings that the code compares or splits (dates) are         *)
(* sequences of character codes; other strings are TLA+ strings.  A        *)
(* missing (undefined) or empty date is the empty sequence: the code only  *)
(* ever tests such a value for truthiness.                                 *)
(***************************************************************************)
EXTENDS Integers, Sequences, FiniteSets, TLC

VARIABLES
    \* ---- paginated Source fetch (fetchMembersFromABC and siblings) ----
    fetcher,        \* which fetcher runs: "members", "cancelled", "pastdue"
    fpc,            \* "loop" while paging, then "returned" or "threw"
    currentPage,    \* let currentPage
    hasMorePages,   \* let hasMorePages
    allMembers,     \* let allMembers
    pageLog,        \* what each axios.get of the loop answered, in order
    fetchResult,    \* the array returned by the fetcher
    \* ---- date-window filter applied by the fetchers ----
    filterKind,     \* "members", "cancelled" or "ptdeactivated"
    filterInput,    \* the records fetched from the Source
    filterWindow,   \* [startDate, endDate] of the request
    filterOutput,   \* the records the fetcher keeps
    filterDone,     \* TRUE once the filter has run
    \* ---- a sync run: one request to one of the sync endpoints ----
    kind,           \* which endpoint runs (SyncKinds)
    window,         \* startDate and endDate after the handler's defaulting
    ghl,            \* the Target System's contacts
    pc,             \* where the handler stands
    clubIdx,        \* position of the for-of loop over enabledClubs
    members,        \* the records fetched for the current club
    idx,            \* position of the for-of loop over members
    call,           \* locals of the syncContactToGHL / addTagToContact call
    reqLog,         \* Target requests issued for the latest record
    results,        \* const results
    clubResult,     \* const clubResult of the current club
    faults,         \* Target requests that failed in transport so far
    visited,        \* indices of the current club's records, as visited
    lastOutcome,    \* how the latest record ended
    createdLog,     \* <<locationId, email>> of every 'created' of the run
    ghlAtFetch,     \* the Target's contacts when the club's list was fetched
    \* ---- the master sync: one request to /api/sync-all ----
    mpc,            \* where the handler stands
    masterStep,     \* which of the seven syncs is next
    masterSyncs,    \* masterResults.syncs: the entries in the order written
    masterLog,      \* the requests posted, their returns and the email, in order
    emailEnabled,   \* const emailEnabled
    \* ---- operations that write one contact's tag list, overlapping ----
    contactTags,    \* the tags of the contact at the Target
    raceOps         \* per operation: what it does and how far it has come

fetchVars == <<fetcher, fpc, currentPage, hasMorePages, allMembers,
               pageLog, fetchResult>>

filterVars == <<filterKind, filterInput, filterWindow, filterOutput, filterDone>>

syncVars == <<kind, window, ghl, pc, clubIdx, members, idx, call, reqLog,
              results, clubResult, faults, visited, lastOutcome, createdLog,
              ghlAtFetch>>

masterVars == <<mpc, masterStep, masterSyncs, masterLog, emailEnabled>>

raceVars == <<contactTags, raceOps>>

vars == <<fetchVars, filterVars, syncVars, masterVars, raceVars>>

----------------------------------------------------------------------------
(* JavaScript values *)

\* member.personal?.isActive as delivered by the Source: a boolean, a string
\* or nothing at all.
BOOL_TRUE  == "<boolean true>"
BOOL_FALSE == "<boolean false>"
UNDEF      == "<undefined>"

\* !v for a string-or-undefined value.
Falsy(v) == v \in {UNDEF, ""}

\* The value as it is, without a default.
OrNothing(v) == v

\* v || ''
OrEmpty(v) == IF Falsy(v) THEN "" ELSE v

----------------------------------------------------------------------------
(* Paginated Source fetch: src/server.js:431-515, 523-629, 636-773 *)

PageSize == 5000
PageCap  == 50

Fetchers == {"members", "cancelled", "pastdue"}

\* The record the Source puts on page p.  Its attributes cycle with p so that
\* every local filter keeps some pages' records and drops others; isActive
\* is a boolean, its string form, missing, or another string.
PageMember(p) ==
    [memberId   |-> p,
     personal   |-> [joinStatus |-> IF p % 3 = 0 THEN "Prospect" ELSE "Member",
                     isActive   |-> << BOOL_FALSE, "false", BOOL_FALSE, "true", UNDEF,
                                       BOOL_TRUE, "TRUE", "false" >>[(p % 8) + 1]],
     daysPastDue |-> p % 5]

\* response.data of one page request: the members array and status.nextPage.
PageShapes == {"full+next", "full+last", "empty+next", "empty+last"}

PageData(p, shape) ==
    [members  |-> IF shape \in {"full+next", "full+last"}
                  THEN <<PageMember(p)>> ELSE <<>>,
     nextPage |-> shape \in {"full+next", "empty+next"}]

\* allMembers.filter(member => member.personal?.joinStatus === 'Member')
IsMemberJoinStatus(m) == m.personal.joinStatus = "Member"

\* isActive === false || isActive === 'false'
IsInactive(m) == m.personal.isActive = BOOL_FALSE \/ m.personal.isActive = "false"

\* if (isActive): every value but false, undefined and '' counts as active.
IsActiveTruthy(m) == m.personal.isActive \notin {BOOL_FALSE, UNDEF, ""}

\* isActive === true || isActive === 'true'
IsActive(m) == m.personal.isActive = BOOL_TRUE \/ m.personal.isActive = "true"

\* daysDiff === 3, daysPastDue being the whole days from the record's
\* nextBillingDate to today's midnight.
IsThreeDaysPastDue(m) == m.daysPastDue = 3

\* The local filters each fetcher applies after the loop (no date window).
LocalFilter(f, ms) ==
    IF f = "members" THEN SelectSeq(ms, IsMemberJoinStatus)
    ELSE IF f = "cancelled"
         THEN SelectSeq(SelectSeq(ms, IsMemberJoinStatus), IsInactive)
    ELSE SelectSeq(SelectSeq(SelectSeq(ms, IsMemberJoinStatus), IsActive),
                   IsThreeDaysPastDue)

\* if (nextPage && members.length > 0) currentPage++ else hasMorePages = false
AdvancePage(page, data) ==
    IF data.nextPage /\ Len(data.members) > 0 THEN page + 1 ELSE page

\* The page cap tested on the page just requested instead of the next one.
MorePagesAfterStale(page, data) ==
    /\ data.nextPage /\ Len(data.members) > 0
    /\ ~(page > PageCap)

\* hasMorePages after one page was handled.
MorePagesAfter(page, data) ==
    /\ data.nextPage /\ Len(data.members) > 0
    \* if (currentPage > 50) hasMorePages = false
    /\ ~(AdvancePage(page, data) > PageCap)

----------------------------------------------------------------------------
(* Date strings.  A date string is the sequence of its UTF-16 code units. *)

ChDash  == 45
ChZero  == 48
ChColon == 58
ChT     == 84

Pad2(n) == <<ChZero + (n \div 10), ChZero + (n % 10)>>
Pad4(n) == <<ChZero + (n \div 1000), ChZero + ((n \div 100) % 10),
             ChZero + ((n \div 10) % 10), ChZero + (n % 10)>>

\* 'YYYY-MM-DD' of a calendar day <<y, m, d>>, as the Source and the request
\* body write it.
FormatDate(ymd) == Pad4(ymd[1]) \o <<ChDash>> \o Pad2(ymd[2]) \o <<ChDash>> \o Pad2(ymd[3])

\* 'YYYY-MM-DDTHH:MM:SS' of a day and a time of day <<h, m, s>>.
FormatTimestamp(ymd, hms) ==
    FormatDate(ymd) \o <<ChT>> \o Pad2(hms[1]) \o <<ChColon>> \o Pad2(hms[2])
                    \o <<ChColon>> \o Pad2(hms[3])

\* str.split('T')[0]: the part of str before the first 'T'.
RECURSIVE SplitT0(_)
SplitT0(str) ==
    IF str = <<>> \/ Head(str) = ChT THEN <<>>
    ELSE <<Head(str)>> \o SplitT0(Tail(str))

\* a <= b for JavaScript strings: code unit by code unit, a proper prefix
\* being smaller.
RECURSIVE StrLe(_, _)
StrLe(a, b) ==
    IF a = <<>> THEN TRUE
    ELSE IF b = <<>> THEN FALSE
    ELSE IF Head(a) < Head(b) THEN TRUE
    ELSE IF Head(a) > Head(b) THEN FALSE
    ELSE StrLe(Tail(a), Tail(b))

\* a >= b
StrGe(a, b) == StrLe(b, a)

\* The window test applied to the whole date text, time of day included.
InWindowNoSplit(date, startDate, endDate) ==
    /\ date # <<>>
    /\ StrGe(date, startDate) /\ StrLe(date, endDate)

\* if (!date) return false;
\* const d = date.split('T')[0]; return d >= startDate && d <= endDate;
InWindow(date, startDate, endDate) ==
    /\ date # <<>>
    /\ LET memberDate == SplitT0(date) IN
       StrGe(memberDate, startDate) /\ StrLe(memberDate, endDate)

\* fetchMembersFromABC: joinStatus filter, then signDate in the window when
\* both ends are given.
FilterMembers(ms, startDate, endDate) ==
    LET joined == SelectSeq(ms, IsMemberJoinStatus) IN
    IF startDate # <<>> /\ endDate # <<>>
    THEN SelectSeq(joined, LAMBDA m : InWindow(m.agreement.signDate, startDate, endDate))
    ELSE joined

\* fetchCancelledMembersFromABC: joinStatus and isActive filters, then
\* memberStatusDate in the window when both ends are given.
FilterCancelled(ms, startDate, endDate) ==
    LET inactive == SelectSeq(SelectSeq(ms, IsMemberJoinStatus), IsInactive) IN
    IF startDate # <<>> /\ endDate # <<>>
    THEN SelectSeq(inactive, LAMBDA m : InWindow(m.personal.memberStatusDate, startDate, endDate))
    ELSE inactive

\* service.recurringServiceSubStatus === 'Paid in Full' ||
\* service.recurringTypeDesc === 'Paid in Full'
IsPaidInFull(svc) ==
    svc.recurringServiceSubStatus = "Paid in Full" \/ svc.recurringTypeDesc = "Paid in Full"

\* /api/sync-pt-deactivated: drop PIFs, keep inactiveDate in the window.
\* With a missing end of the window the comparison with undefined is false.
FilterDeactivated(svcs, startDate, endDate) ==
    SelectSeq(svcs, LAMBDA svc :
        /\ ~IsPaidInFull(svc)
        /\ startDate # <<>> /\ endDate # <<>>
        /\ InWindow(svc.recurringServiceDates.inactiveDate, startDate, endDate))

\* The filter variables while another specification runs.
FilterIdle ==
    /\ filterKind = "none"
    /\ filterInput = <<>>
    /\ filterWindow = [startDay |-> <<>>, endDay |-> <<>>]
    /\ filterOutput = <<>>
    /\ filterDone = FALSE

\* The variables of a sync run while another specification runs.
SyncIdle ==
    /\ kind = "none"
    /\ window = [startDate |-> <<>>, endDate |-> <<>>]
    /\ ghl = <<>>
    /\ pc = "idle"
    /\ clubIdx = 0
    /\ members = <<>>
    /\ idx = 0
    /\ call = [fn |-> "none"]
    /\ reqLog = <<>>
    /\ results = [type |-> "none"]
    /\ clubResult = [type |-> "none"]
    /\ faults = 0
    /\ visited = <<>>
    /\ lastOutcome = "none"
    /\ createdLog = <<>>
    /\ ghlAtFetch = <<>>

\* The fetch variables while another specification runs.
FetchIdle ==
    /\ fetcher = "none"
    /\ fpc = "idle"
    /\ currentPage = 1
    /\ hasMorePages = FALSE
    /\ allMembers = <<>>
    /\ pageLog = <<>>
    /\ fetchResult = <<>>

\* The variables of the master sync while another specification runs.
MasterIdle ==
    /\ mpc = "idle"
    /\ masterStep = 0
    /\ masterSyncs = <<>>
    /\ masterLog = <<>>
    /\ emailEnabled = FALSE

\* The variables of the overlapping operations while another
\* specification runs.
RaceIdle ==
    /\ contactTags = <<>>
    /\ raceOps = <<>>

FetchInit ==
    /\ fetcher \in Fetchers
    /\ fpc = "loop"
    /\ currentPage = 1
    /\ hasMorePages = TRUE
    /\ allMembers = <<>>
    /\ pageLog = <<>>
    /\ fetchResult = <<>>
    /\ FilterIdle
    /\ SyncIdle
    /\ MasterIdle
    /\ RaceIdle

\* One iteration of while (hasMorePages) whose axios.get succeeds.
FetchPage ==
    /\ fpc = "loop" /\ hasMorePages
    /\ \E shape \in PageShapes :
          LET data == PageData(currentPage, shape) IN
          /\ allMembers' = allMembers \o data.members
          /\ currentPage' = AdvancePage(currentPage, data)
          /\ hasMorePages' = MorePagesAfter(currentPage, data)
          /\ pageLog' = Append(pageLog, shape)
    /\ UNCHANGED <<fetcher, fpc, fetchResult>>
    /\ UNCHANGED <<filterVars, syncVars, masterVars, raceVars>>

\* The rejected page request ends the loop and what was collected so far is
\* filtered and returned.
FetchPageFailsPartial ==
    /\ fpc = "loop" /\ hasMorePages
    /\ pageLog' = Append(pageLog, "fail")
    /\ fetchResult' = LocalFilter(fetcher, allMembers)
    /\ fpc' = "returned"
    /\ UNCHANGED <<fetcher, currentPage, hasMorePages, allMembers>>
    /\ UNCHANGED <<filterVars, syncVars, masterVars, raceVars>>

\* One iteration whose axios.get rejects: the catch block rethrows
\* 'ABC API Error'.
FetchPageFails ==
    /\ fpc = "loop" /\ hasMorePages
    /\ pageLog' = Append(pageLog, "fail")
    /\ fpc' = "threw"
    /\ UNCHANGED <<fetcher, currentPage, hasMorePages, allMembers, fetchResult>>
    /\ UNCHANGED <<filterVars, syncVars, masterVars, raceVars>>

\* The loop has ended: filter and return.
FetchReturn ==
    /\ fpc = "loop" /\ ~hasMorePages
    /\ fetchResult' = LocalFilter(fetcher, allMembers)
    /\ fpc' = "returned"
    /\ UNCHANGED <<fetcher, currentPage, hasMorePages, allMembers, pageLog>>
    /\ UNCHANGED <<filterVars, syncVars, masterVars, raceVars>>

FetchNext == FetchPage \/ FetchPageFails \/ FetchReturn

SpecFetch == FetchInit /\ [][FetchNext]_vars

----------------------------------------------------------------------------
(* The date-window filter on its own: one fetcher's filters applied to a    *)
(* list of Source records, for every window of the request.                 *)

MaxFilterLen == 2

FilterKinds == {"members", "cancelled", "ptdeactivated"}

\* Calendar days around a month and a year boundary.
FilterDays == {<<2023, 12, 31>>, <<2024, 1, 30>>, <<2024, 1, 31>>, <<2024, 2, 1>>}

\* Times of day the Source attaches: none ('YYYY-MM-DD') or a time.
FilterTimes == {<<>>, <<23, 59, 59>>}

\* The Source's text for a day and an optional time of day; no day, no text.
SourceDate(ymd, hms) ==
    IF ymd = <<>> THEN <<>>
    ELSE IF hms = <<>> THEN FormatDate(ymd)
    ELSE FormatTimestamp(ymd, hms)

\* A member record of the Source.  day is the calendar day its date fields
\* were written from; early says whether it passes the earlier filters.
SourceMember(fk, ymd, hms, early) ==
    [personal  |-> [joinStatus |-> IF early \/ fk = "cancelled" THEN "Member" ELSE "Prospect",
                    isActive   |-> IF early THEN "false" ELSE BOOL_TRUE,
                    memberStatusDate |-> SourceDate(ymd, hms)],
     agreement |-> [signDate |-> SourceDate(ymd, hms)],
     day       |-> ymd]

\* A recurring-service record of the Source.
SourceService(ymd, hms, early) ==
    [recurringServiceSubStatus |-> IF early THEN "Active" ELSE "Paid in Full",
     recurringTypeDesc         |-> "Recurring",
     recurringServiceDates     |-> [inactiveDate |-> SourceDate(ymd, hms)],
     day                       |-> ymd]

SourceRecord(fk, ymd, hms, early) ==
    IF fk = "ptdeactivated" THEN SourceService(ymd, hms, early)
    ELSE SourceMember(fk, ymd, hms, early)

FilterRecords(fk) ==
    {SourceRecord(fk, ymd, hms, TRUE) : ymd \in FilterDays, hms \in FilterTimes}
    \cup {SourceRecord(fk, <<>>, <<>>, TRUE)}
    \cup {SourceRecord(fk, <<2024, 1, 31>>, hms, FALSE) : hms \in FilterTimes}

SeqsUpTo(S, n) == UNION {[1..k -> S] : k \in 0..n}

\* req.body: each end of the window is a 'YYYY-MM-DD' day or absent.
FilterWindows == [startDay : FilterDays \cup {<<>>}, endDay : FilterDays \cup {<<>>}]

WindowText(day) == IF day = <<>> THEN <<>> ELSE FormatDate(day)

ApplyFilter(fk, records, w) ==
    LET startDate == WindowText(w.startDay)
        endDate   == WindowText(w.endDay) IN
    IF fk = "members" THEN FilterMembers(records, startDate, endDate)
    ELSE IF fk = "cancelled" THEN FilterCancelled(records, startDate, endDate)
    ELSE FilterDeactivated(records, startDate, endDate)

FilterInit ==
    /\ filterKind \in FilterKinds
    /\ filterInput \in SeqsUpTo(FilterRecords(filterKind), MaxFilterLen)
    /\ filterWindow \in FilterWindows
    /\ filterOutput = <<>>
    /\ filterDone = FALSE
    /\ FetchIdle
    /\ SyncIdle
    /\ MasterIdle
    /\ RaceIdle

\* The fetcher filters what it fetched.
FilterRun ==
    /\ ~filterDone
    /\ filterOutput' = ApplyFilter(filterKind, filterInput, filterWindow)
    /\ filterDone' = TRUE
    /\ UNCHANGED <<filterKind, filterInput, filterWindow>>
    /\ UNCHANGED <<fetchVars, syncVars, masterVars, raceVars>>

FilterNext == FilterRun

SpecFilter == FilterInit /\ [][FilterNext]_vars

----------------------------------------------------------------------------
(* Configuration and Source data of a sync run *)

\* clubs-config.json as loaded into clubsConfig: two enabled clubs (one of
\* them without an enabled key) and a disabled one between them.
clubsConfig ==
    [clubs |-> <<
        [clubNumber |-> "30935", clubName |-> "North", enabled |-> BOOL_TRUE,
         ghlApiKey |-> "key-north", ghlLocationId |-> "loc-north"],
        [clubNumber |-> "30936", clubName |-> "Closed", enabled |-> BOOL_FALSE,
         ghlApiKey |-> "key-closed", ghlLocationId |-> "loc-closed"],
        [clubNumber |-> "30937", clubName |-> "South", enabled |-> UNDEF,
         ghlApiKey |-> "key-south", ghlLocationId |-> "loc-south"] >>]

\* clubsConfig.clubs.filter(club => club.enabled !== false)
enabledClubs == SelectSeq(clubsConfig.clubs, LAMBDA club : club.enabled # BOOL_FALSE)

\* const excludedMembershipTypes = ['NON-MEMBER', 'Employee'];
excludedMembershipTypes == {"NON-MEMBER", "Employee"}

\* The five batch loops.
SyncKinds == {"new", "cancelled", "pastdue", "ptnew", "ptdeactivated"}

EmailAnn   == "ann@x.com"
EmailJoAnn == "joann@x.com"
EmailSam   == "sam@x.com"
PhoneLee   == "555-0101"

\* The day the run takes place and the window its request names.
RunWindow == [startDay |-> <<2024, 1, 30>>, endDay |-> <<2024, 1, 31>>]

\* A member of the Source.  Fields the Source omits are UNDEF (dates: <<>>).
SrcMember(id, email, first, phone, mtype, join, active, day, billing, due) ==
    [memberId |-> id,
     personal |-> [email |-> email, firstName |-> first, lastName |-> "Lee",
                   primaryPhone |-> UNDEF, mobilePhone |-> phone,
                   addressLine1 |-> UNDEF, city |-> UNDEF, state |-> UNDEF,
                   postalCode |-> UNDEF, countryCode |-> UNDEF,
                   homeClub |-> UNDEF, barcode |-> UNDEF, birthDate |-> UNDEF,
                   gender |-> UNDEF, memberStatus |-> UNDEF,
                   joinStatus |-> join, isActive |-> active,
                   memberStatusDate |-> SourceDate(day, <<>>),
                   totalCheckInCount |-> UNDEF, lastCheckInTimestamp |-> UNDEF],
     agreement |-> [membershipType |-> mtype, paymentPlan |-> UNDEF,
                    agreementNumber |-> UNDEF, salesPersonName |-> UNDEF,
                    convertedDate |-> UNDEF,
                    signDate |-> SourceDate(day, <<23, 59, 59>>),
                    nextBillingDate |-> billing, isPastDue |-> UNDEF],
     daysPastDue |-> due,
     ptSignDate |-> <<>>,
     ptDeactivateDate |-> <<>>]

\* isActive as the Source writes it for a member a fetcher of this k keeps.
KeptActive(k) == IF k = "cancelled" THEN "false" ELSE BOOL_TRUE

\* The past-due list carries Ann's address as the Source has it, in mixed
\* case; the Target holds it in lower case.
MemberAnn(k) ==
    SrcMember("m-ann", IF k = "pastdue" THEN "Ann@X.com" ELSE EmailAnn, "Ann",
              PhoneLee, "Basic", "Member", KeptActive(k),
              <<2024, 1, 31>>, "2024-02-01", 3)
MemberNoEmail(k) ==
    SrcMember("m-none", UNDEF, "Noel", UNDEF, "Basic", "Member", KeptActive(k),
              <<2024, 1, 30>>, UNDEF, 3)
MemberEmployee(k) ==
    SrcMember("m-emp", EmailJoAnn, "Jo", UNDEF, "Employee", "Member", KeptActive(k),
              <<2024, 1, 30>>, UNDEF, 3)
MemberNonMember(k) ==
    SrcMember("m-non", EmailAnn, "Ann", UNDEF, "NON-MEMBER", "Member", KeptActive(k),
              <<2024, 1, 31>>, UNDEF, 3)
MemberProspect(k) ==
    SrcMember("m-pro", EmailJoAnn, "Jo", UNDEF, "Basic", "Prospect", KeptActive(k),
              <<2024, 1, 31>>, UNDEF, 3)
MemberOld(k) ==
    SrcMember("m-old", EmailJoAnn, "Jo", UNDEF, "Basic", "Member", KeptActive(k),
              <<2023, 12, 31>>, UNDEF, 2)

\* What GET /{club}/members may hold.
SourceMembers(k) ==
    {MemberAnn(k), MemberNoEmail(k), MemberEmployee(k),
     MemberNonMember(k), MemberProspect(k), MemberOld(k)}

\* A recurring service of the Source.
SrcService(memberId, item, subStatus, day, employeeFirst) ==
    [memberId |-> memberId,
     serviceItem |-> item,
     recurringServiceSubStatus |-> subStatus,
     recurringTypeDesc |-> "Recurring",
     recurringServiceDates |-> [saleDate |-> SourceDate(day, <<>>),
                                inactiveDate |-> SourceDate(day, <<23, 59, 59>>)],
     serviceEmployeeFirstName |-> employeeFirst,
     serviceEmployeeLastName |-> UNDEF]

\* What GET /{club}/members/recurringservices may hold.
SourceServices ==
    {SrcService("m-ann", "PT 4x", "Active", <<2024, 1, 31>>, "Tom"),
     SrcService("m-none", "PT 8x", "Paid in Full", <<2024, 1, 30>>, UNDEF),
     SrcService("m-ann", "ChildCare 1st Child", "Active", <<2024, 1, 31>>, UNDEF)}

\* The members GET /{club}/members/{memberId} and ?memberId= can name.
SourceDirectory == {MemberAnn("ptnew"), MemberNoEmail("ptnew")}

\* fetchRecurringServicesFromABC: the local filter on serviceItem.
excludedServices == {"FULL ACCESS EUG SPRING", "ChildCare 1st Child", "ChildCare 2nd Child"}

FilterServices(svcs) ==
    SelectSeq(svcs, LAMBDA svc : OrEmpty(svc.serviceItem) \notin excludedServices)

----------------------------------------------------------------------------
(* The Target System (GoHighLevel) as the requests of the code see it.     *)
(* ghl is the sequence of its contacts; a contact's id is its position.     *)

\* Contact ids above no contact: meta.contactId absent, no contact found.
NoId == 0

GhlContact(loc, email, first, phone, tags, fields) ==
    [locationId |-> loc, email |-> email, firstName |-> first,
     lastName |-> "Lee", phone |-> phone, tags |-> tags, customFields |-> fields]

\* email.toLowerCase() over the addresses of the model.
ToLowerCase(str) == IF str = "Ann@X.com" THEN EmailAnn ELSE str

\* Free-text search: does the query text occur in the contact's email,
\* letter case aside?
QueryMatches(query, contact) ==
    /\ query # ""
    /\ \/ ToLowerCase(contact.email) = ToLowerCase(query)
       \/ ToLowerCase(query) = EmailAnn /\ contact.email = EmailJoAnn

IdsIn(dir, loc) == {i \in 1..Len(dir) : dir[i].locationId = loc}

\* POST /contacts/search/duplicate {locationId, email}: the id of the
\* location's contact with that email, NoId when there is none.
GhlSearchDuplicate(dir, loc, email) ==
    LET hits == {i \in IdsIn(dir, loc) : email # "" /\ dir[i].email = email} IN
    IF hits = {} THEN NoId ELSE CHOOSE i \in hits : \A j \in hits : i <= j

\* GET /contacts/?locationId&query: the ids of the matching contacts of the
\* location, in every order the Target may list them.
Perms(S) == {f \in [1..Cardinality(S) -> S] : \A i, j \in DOMAIN f : f[i] = f[j] => i = j}

GhlQuery(dir, loc, query) ==
    Perms({i \in IdsIn(dir, loc) : QueryMatches(query, dir[i])})

\* The keys and the value of a customFields array ([{key, value}, ...]);
\* a later entry for a key wins.
FieldKeys(list) == {list[i].key : i \in 1..Len(list)}

FieldValue(list, key) ==
    LET last == CHOOSE i \in 1..Len(list) :
                    /\ list[i].key = key
                    /\ \A j \in 1..Len(list) : list[j].key = key => j <= i
    IN list[last].value

\* PUT /contacts/{id}: the fields the body carries replace the contact's;
\* custom fields are replaced key by key.
GhlPut(contact, data) ==
    [locationId |-> contact.locationId,
     email      |-> IF "email" \in DOMAIN data THEN data.email ELSE contact.email,
     firstName  |-> IF "firstName" \in DOMAIN data THEN data.firstName ELSE contact.firstName,
     lastName   |-> IF "lastName" \in DOMAIN data THEN data.lastName ELSE contact.lastName,
     phone      |-> IF "phone" \in DOMAIN data THEN data.phone ELSE contact.phone,
     tags       |-> IF "tags" \in DOMAIN data THEN data.tags ELSE contact.tags,
     customFields |->
        IF "customFields" \in DOMAIN data
        THEN [k \in DOMAIN contact.customFields \cup FieldKeys(data.customFields) |->
                 IF k \in FieldKeys(data.customFields)
                 THEN FieldValue(data.customFields, k)
                 ELSE contact.customFields[k]]
        ELSE contact.customFields]

\* POST /contacts/: the contact the Target stores for a create body.
GhlCreated(data) ==
    [locationId |-> data.locationId, email |-> data.email,
     firstName |-> data.firstName, lastName |-> data.lastName,
     phone |-> data.phone, tags |-> data.tags,
     customFields |-> [k \in FieldKeys(data.customFields) |->
                          FieldValue(data.customFields, k)]]

\* The contacts a create for this body collides with: the Target refuses a
\* second contact with an email or a phone its location already holds.
GhlDuplicatesOf(dir, data) ==
    {i \in IdsIn(dir, data.locationId) :
        \/ data.email # "" /\ dir[i].email = data.email
        \/ data.phone # "" /\ dir[i].phone = data.phone}

\* Contacts the Target may hold before a run: two at the north location
\* whose emails a free-text search confuses, and at the south location one
\* contact that holds the phone of a member under another email.
SeedNorth ==
    << GhlContact("loc-north", EmailJoAnn, "Jo", "", <<"sale">>,
                  [next_billing_date |-> "2024-01-01"]),
       GhlContact("loc-north", EmailAnn, "Ann", PhoneLee, <<"pt current">>,
                  [next_billing_date |-> "2024-01-01", cancel_date |-> "2023-12-01"]) >>

SeedSouth ==
    { GhlContact("loc-south", EmailSam, "Sam", PhoneLee, <<"sale">>,
                 [next_billing_date |-> "2024-02-01"]),
      GhlContact("loc-south", EmailJoAnn, "Jo", PhoneLee, <<"sale">>,
                 [next_billing_date |-> "2024-02-01"]) }

\* The Target's contacts before a run.
SeedStates == {<<>>, SeedNorth} \cup {Append(SeedNorth, c) : c \in SeedSouth}

----------------------------------------------------------------------------
(* syncContactToGHL: the draft and the merge (src/server.js:1043-1236) *)

\* The keys syncContactToGHL always puts into contactData.customFields.
FixedFieldKeys ==
    << "abc_member_id", "abc_club_number", "barcode", "birth_date", "gender",
       "member_status", "join_status", "membership_type", "payment_plan",
       "agreement_number", "sale_team_member", "converted_date",
       "member_sign_date", "next_billing_date", "is_past_due",
       "total_check_in_count", "last_check_in" >>

\* The source field each fixed key is read from, with || '' applied.
FixedFieldValue(member, key) ==
    LET personal == member.personal
        agreement == member.agreement IN
    CASE key = "abc_member_id"        -> OrEmpty(member.memberId)
      [] key = "abc_club_number"      -> OrEmpty(personal.homeClub)
      [] key = "barcode"              -> OrEmpty(personal.barcode)
      [] key = "birth_date"           -> OrEmpty(personal.birthDate)
      [] key = "gender"               -> OrEmpty(personal.gender)
      [] key = "member_status"        -> OrEmpty(personal.memberStatus)
      [] key = "join_status"          -> OrEmpty(personal.joinStatus)
      [] key = "membership_type"      -> OrEmpty(agreement.membershipType)
      [] key = "payment_plan"         -> OrEmpty(agreement.paymentPlan)
      [] key = "agreement_number"     -> OrEmpty(agreement.agreementNumber)
      [] key = "sale_team_member"     -> OrEmpty(agreement.salesPersonName)
      [] key = "converted_date"       -> OrEmpty(agreement.convertedDate)
      [] key = "member_sign_date"     -> agreement.signDate
      [] key = "next_billing_date"    -> OrEmpty(agreement.nextBillingDate)
      [] key = "is_past_due"          -> OrEmpty(agreement.isPastDue)
      [] key = "total_check_in_count" -> OrEmpty(personal.totalCheckInCount)
      [] key = "last_check_in"        -> OrEmpty(personal.lastCheckInTimestamp)

\* const contactData = {...}
ContactData(member, ghlLocationId, customTag, serviceEmployee) ==
    LET personal == member.personal IN
    [locationId |-> ghlLocationId,
     firstName  |-> OrEmpty(personal.firstName),
     lastName   |-> OrEmpty(personal.lastName),
     email      |-> OrEmpty(personal.email),
     phone      |-> IF ~Falsy(personal.primaryPhone) THEN personal.primaryPhone
                    ELSE OrEmpty(personal.mobilePhone),
     tags       |-> <<customTag>>,
     customFields |->
        [i \in 1..Len(FixedFieldKeys) |->
            [key |-> FixedFieldKeys[i], value |-> FixedFieldValue(member, FixedFieldKeys[i])]]
        \o (IF ~Falsy(serviceEmployee)
            THEN <<[key |-> "service_employee", value |-> serviceEmployee]>> ELSE <<>>)
        \o (IF member.ptSignDate # <<>>
            THEN <<[key |-> "pt_sign_date", value |-> member.ptSignDate]>> ELSE <<>>)
        \o (IF member.ptDeactivateDate # <<>>
            THEN <<[key |-> "pt_deactivate_date", value |-> member.ptDeactivateDate]>> ELSE <<>>)]

Includes(seq, x) == \E i \in 1..Len(seq) : seq[i] = x

\* The draft's singleton written in place of the merged tags.
MergeTagsReplace(existingTags, customTag) == <<customTag>>

\* The tag pushed without the includes() test.
MergeTagsAlwaysPush(existingTags, customTag) == Append(existingTags, customTag)

\* let existingTags = ...tags || [];
\* if (!existingTags.includes(customTag)) existingTags.push(customTag);
MergeTags(existingTags, customTag) ==
    IF Includes(existingTags, customTag) THEN existingTags
    ELSE Append(existingTags, customTag)

\* An update body that leaves the custom fields out.
UpdateDataNoFields(contactData, existingTags) ==
    [f \in DOMAIN contactData \ {"locationId", "customFields"} |->
        IF f = "tags" THEN existingTags ELSE contactData[f]]

\* const updateData = { ...contactData }; delete updateData.locationId;
\* updateData.tags = existingTags;
UpdateData(contactData, existingTags) ==
    [f \in DOMAIN contactData \ {"locationId"} |->
        IF f = "tags" THEN existingTags ELSE contactData[f]]

\* createError.response?.data?.message?.includes('duplicated') || ...('duplicate')
IsDuplicateError(message) ==
    message \in {"This location does not allow duplicated contacts.",
                 "duplicate contact"}

----------------------------------------------------------------------------
(* The batch loops of the sync endpoints: results and per-record accounting *)

\* Records the Source hands out over the clubs of one run, and Target
\* requests that fail in transport during one run.
MaxRecords == 2
MaxFaults  == 1

Inc(rec, field) == [rec EXCEPT ![field] = @ + 1]
Push(rec, field, entry) == [rec EXCEPT ![field] = Append(@, entry)]

IsTagKind(k) == k \in {"cancelled", "pastdue"}
IsPTKind(k)  == k \in {"ptnew", "ptdeactivated"}

\* const results = {...}
NewResults(k) ==
    IF k = "new"
    THEN [totalClubs |-> Len(enabledClubs), totalMembers |-> 0, created |-> 0,
          updated |-> 0, skipped |-> 0, errors |-> 0, clubs |-> <<>>]
    ELSE IF IsTagKind(k)
    THEN [totalClubs |-> Len(enabledClubs), totalMembers |-> 0, tagged |-> 0,
          alreadyTagged |-> 0, notFound |-> 0, errors |-> 0, clubs |-> <<>>]
    ELSE [totalClubs |-> Len(enabledClubs), totalServices |-> 0, created |-> 0,
          updated |-> 0, tagged |-> 0, errors |-> 0, clubs |-> <<>>]

\* const clubResult = {...}
NewClubResult(k, club) ==
    IF k = "new"
    THEN [clubNumber |-> club.clubNumber, members |-> 0, created |-> 0,
          updated |-> 0, skipped |-> 0, skippedMembers |-> <<>>,
          syncedMembers |-> <<>>, errors |-> <<>>]
    ELSE IF IsTagKind(k)
    THEN [clubNumber |-> club.clubNumber, totalMembers |-> 0, tagged |-> 0,
          alreadyTagged |-> 0, notFound |-> 0, errors |-> 0, members |-> <<>>]
    ELSE [clubNumber |-> club.clubNumber, totalServices |-> 0, created |-> 0,
          updated |-> 0, tagged |-> 0, errors |-> 0, services |-> <<>>]

\* clubResult.members = members.length; results.totalMembers += ...
\* (totalMembers / totalServices in the other endpoints)
CountFetched(k, rec, n) ==
    IF k = "new" /\ "clubNumber" \in DOMAIN rec THEN [rec EXCEPT !.members = n]
    ELSE IF k = "new" \/ IsTagKind(k) THEN [rec EXCEPT !.totalMembers = @ + n]
    ELSE [rec EXCEPT !.totalServices = @ + n]

\* member.personal?.email || member.memberId
MemberLabel(member) ==
    IF ~Falsy(member.personal.email) THEN member.personal.email ELSE member.memberId

\* The bookkeeping after syncContactToGHL returned result.action.
\* rec is clubResult or results; detail tells them apart.
CountSyncAction(k, rec, action, detail) ==
    LET counted == IF action \in {"created", "updated"} THEN Inc(rec, action) ELSE rec IN
    IF k = "new"
    THEN IF detail = <<>> THEN counted ELSE Push(counted, "syncedMembers", detail[1])
    ELSE IF detail = <<>> THEN Inc(counted, "tagged")
         ELSE Push(Inc(counted, "tagged"), "services", detail[1])

\* A bookkeeping that has no counter for 'already_tagged'.
CountTagActionNoAlready(rec, action, detail) ==
    LET counted == IF action = "tagged" THEN Inc(rec, "tagged")
                   ELSE IF action = "not_found" THEN Inc(rec, "notFound")
                   ELSE rec IN
    IF detail = <<>> THEN counted ELSE Push(counted, "members", detail[1])

\* The bookkeeping after addTagToContact returned result.action.
CountTagAction(rec, action, detail) ==
    LET counted == IF action = "tagged" THEN Inc(rec, "tagged")
                   ELSE IF action = "already_tagged" THEN Inc(rec, "alreadyTagged")
                   ELSE IF action = "not_found" THEN Inc(rec, "notFound")
                   ELSE rec IN
    IF detail = <<>> THEN counted ELSE Push(counted, "members", detail[1])

\* A catch that counts the failed record twice.
CatchInClubTwice(k, rec, label, message) ==
    IF k = "new"
    THEN Push(Push(rec, "errors", [member |-> label, error |-> message]),
              "errors", [member |-> label, error |-> message])
    ELSE Inc(Inc(rec, "errors"), "errors")

\* catch (memberError) / catch (serviceError): what the club's record keeps.
CatchInClub(k, rec, label, message) ==
    IF k = "new" THEN Push(rec, "errors", [member |-> label, error |-> message])
    ELSE IF IsTagKind(k) THEN Inc(rec, "errors")
    ELSE Push(Inc(rec, "errors"), "services", [memberId |-> label, error |-> message])

\* A catch (clubError) that records nothing.
CatchClubSilent(k, rec, message) == rec

\* catch (clubError): what the club's record keeps.
CatchClub(k, rec, message) ==
    IF k = "new" THEN Push(rec, "errors", [error |-> message])
    ELSE Inc(rec, "errors")

----------------------------------------------------------------------------
(* A sync run: POST /api/sync, /api/sync-cancelled, /api/sync-past-due,     *)
(* /api/sync-pt-new, /api/sync-pt-deactivated                               *)

Today == <<2024, 2, 2>>

DaysInMonth(y, m) ==
    IF m = 2 THEN (IF y % 4 = 0 /\ (y % 100 # 0 \/ y % 400 = 0) THEN 29 ELSE 28)
    ELSE IF m \in {4, 6, 9, 11} THEN 30 ELSE 31

\* date.setDate(date.getDate() - 1)
PrevDay(ymd) ==
    IF ymd[3] > 1 THEN <<ymd[1], ymd[2], ymd[3] - 1>>
    ELSE IF ymd[2] > 1 THEN <<ymd[1], ymd[2] - 1, DaysInMonth(ymd[1], ymd[2] - 1)>>
    ELSE <<ymd[1] - 1, 12, 31>>

\* if (!startDate && !endDate) { start: 3 days ago, end: yesterday }
\* on a server whose clock runs on UTC.
DefaultedWindow(body) ==
    IF body.startDay = <<>> /\ body.endDay = <<>>
    THEN [startDate |-> FormatDate(PrevDay(PrevDay(PrevDay(Today)))),
          endDate   |-> FormatDate(PrevDay(Today))]
    ELSE [startDate |-> WindowText(body.startDay),
          endDate   |-> WindowText(body.endDay)]

\* req.body of the runs the model starts: both dates, neither, or only the
\* start date.
RunBodies ==
    {RunWindow, [startDay |-> <<>>, endDay |-> <<>>],
     [startDay |-> RunWindow.startDay, endDay |-> <<>>]}

\* The array the fetcher of an endpoint returns for what the Source holds.
FetchFor(k, raw, win) ==
    IF k = "new" THEN FilterMembers(raw, win.startDate, win.endDate)
    ELSE IF k = "cancelled" THEN FilterCancelled(raw, win.startDate, win.endDate)
    ELSE IF k = "pastdue" THEN LocalFilter("pastdue", raw)
    ELSE IF k = "ptnew" THEN FilterServices(raw)
    ELSE FilterDeactivated(FilterServices(raw), win.startDate, win.endDate)

\* What the Source may hold for the fetcher of an endpoint.
SourceRecords(k) == IF IsPTKind(k) THEN SourceServices ELSE SourceMembers(k)

SyncInit ==
    /\ kind \in SyncKinds
    /\ window \in {DefaultedWindow(body) : body \in
                     IF kind = "new" THEN RunBodies ELSE {RunWindow}}
    /\ ghl \in SeedStates
    /\ pc = "club"
    /\ clubIdx = 1
    /\ members = <<>>
    /\ idx = 0
    /\ call = [fn |-> "none"]
    /\ reqLog = <<>>
    /\ results = NewResults(kind)
    /\ clubResult = [type |-> "none"]
    /\ faults = 0
    /\ visited = <<>>
    /\ lastOutcome = "none"
    /\ createdLog = <<>>
    /\ ghlAtFetch = <<>>
    /\ FetchIdle
    /\ FilterIdle
    /\ MasterIdle
    /\ RaceIdle

\* results.totalMembers (totalServices in the PT endpoints)
FetchedSoFar ==
    IF IsPTKind(kind) THEN results.totalServices ELSE results.totalMembers

\* The first enabled club, whichever club the loop is at.
clubFirst == enabledClubs[1]

\* for (const club of enabledClubs)
club == enabledClubs[clubIdx]
member == members[idx]

\* const members = await fetchMembersFromABC(club.clubNumber, startDate, endDate)
\* (or the endpoint's own fetcher) succeeds.
ClubFetch ==
    /\ pc = "club" /\ clubIdx <= Len(enabledClubs)
    /\ \E raw \in SeqsUpTo(SourceRecords(kind), MaxRecords - FetchedSoFar) :
          LET fetched == FetchFor(kind, raw, window) IN
          /\ members' = fetched
          /\ clubResult' = CountFetched(kind, NewClubResult(kind, club), Len(fetched))
          /\ results' = CountFetched(kind, results, Len(fetched))
    /\ idx' = 1
    /\ pc' = "loop"
    /\ ghlAtFetch' = ghl
    /\ visited' = <<>>
    /\ reqLog' = <<>>
    /\ lastOutcome' = "none"
    /\ UNCHANGED <<kind, window, ghl, clubIdx, call, faults, createdLog>>
    /\ UNCHANGED <<fetchVars, filterVars, masterVars, raceVars>>

\* The fetcher throws 'ABC API Error': catch (clubError), then
\* results.clubs.push(clubResult) and the next club.
ClubFetchFails ==
    /\ pc = "club" /\ clubIdx <= Len(enabledClubs)
    /\ LET failed == CatchClub(kind, NewClubResult(kind, club), "ABC API Error") IN
       /\ clubResult' = failed
       /\ results' = Push(Inc(results, "errors"), "clubs", failed)
    /\ members' = <<>>
    /\ idx' = 0
    /\ ghlAtFetch' = ghl
    /\ visited' = <<>>
    /\ reqLog' = <<>>
    /\ lastOutcome' = "none"
    /\ clubIdx' = clubIdx + 1
    /\ UNCHANGED <<kind, window, ghl, pc, call, faults, createdLog>>
    /\ UNCHANGED <<fetchVars, filterVars, masterVars, raceVars>>

\* The for-of loop over the club's records has ended.
ClubEnd ==
    /\ pc = "loop" /\ idx > Len(members)
    /\ results' = Push(results, "clubs", clubResult)
    /\ clubIdx' = clubIdx + 1
    /\ pc' = "club"
    /\ UNCHANGED <<kind, window, ghl, members, ghlAtFetch, idx, call, reqLog, clubResult,
                   faults, visited, lastOutcome, createdLog>>
    /\ UNCHANGED <<fetchVars, filterVars, masterVars, raceVars>>

\* The for-of loop over enabledClubs has ended: res.json({success: true,...})
RunEnd ==
    /\ pc = "club" /\ clubIdx > Len(enabledClubs)
    /\ pc' = "done"
    /\ UNCHANGED <<kind, window, ghl, clubIdx, members, ghlAtFetch, idx, call, reqLog,
                   results, clubResult, faults, visited, lastOutcome, createdLog>>
    /\ UNCHANGED <<fetchVars, filterVars, masterVars, raceVars>>

----------------------------------------------------------------------------
(* The body of the loop over one club's records *)

\* An exclusion test that knows only the first excluded type.
IsExcludedFirstOnly(m) == OrEmpty(m.agreement.membershipType) = "NON-MEMBER"

\* excludedMembershipTypes.includes(member.agreement?.membershipType || '')
IsExcluded(m) == OrEmpty(m.agreement.membershipType) \in excludedMembershipTypes

\* The locals of a syncContactToGHL(member, ghlApiKey, ghlLocationId,
\* customTag, serviceEmployee) call at its first request.
SyncCall(label, m, ghlApiKey, ghlLocationId, customTag, serviceEmployee) ==
    [fn |-> "syncContactToGHL",
     label |-> label,
     apiKey |-> ghlApiKey,
     locationId |-> ghlLocationId,
     customTag |-> customTag,
     contactData |-> ContactData(m, ghlLocationId, customTag, serviceEmployee),
     existingContactId |-> NoId,
     existingTags |-> <<>>,
     createError |-> "",
     duplicateContactId |-> NoId,
     foundContact |-> NoId]

\* One Target request of the current call, as the Target receives it.
Request(op, id, ok, body, before) ==
    [op |-> op, apiKey |-> call.apiKey, locationId |-> call.locationId,
     id |-> id, ok |-> ok, body |-> body, before |-> before]

\* The record is done: the loop moves on.
NextRecord(outcome) ==
    /\ idx' = idx + 1
    /\ pc' = "loop"
    /\ lastOutcome' = outcome

\* A catch that records the error and leaves the loop (break).
CatchMemberErrorBreaks(message) ==
    /\ clubResult' = CatchInClub(kind, clubResult, call.label, message)
    /\ results' = Inc(results, "errors")
    /\ idx' = Len(members) + 1
    /\ pc' = "loop"
    /\ lastOutcome' = "error"

\* catch (memberError) { clubResult.errors...; results.errors++ }
CatchMemberError(message) ==
    /\ clubResult' = CatchInClub(kind, clubResult, call.label, message)
    /\ results' = Inc(results, "errors")
    /\ NextRecord("error")

\* /api/sync: the record's membership type is excluded.
NewSkipExcluded ==
    /\ pc = "loop" /\ idx <= Len(members) /\ kind = "new"
    /\ IsExcluded(member)
    /\ visited' = Append(visited, idx)
    /\ reqLog' = <<>>
    /\ clubResult' = Push(Inc(clubResult, "skipped"), "skippedMembers",
                          [email |-> member.personal.email,
                           membershipType |-> OrEmpty(member.agreement.membershipType),
                           reason |-> "Excluded membership type"])
    /\ results' = Inc(results, "skipped")
    /\ call' = [fn |-> "none"]
    /\ NextRecord("skipped")
    /\ UNCHANGED <<kind, window, ghl, clubIdx, members, ghlAtFetch, faults, createdLog>>
    /\ UNCHANGED <<fetchVars, filterVars, masterVars, raceVars>>

\* /api/sync: await syncContactToGHL(member, club.ghlApiKey, club.ghlLocationId)
NewBeginSync ==
    /\ pc = "loop" /\ idx <= Len(members) /\ kind = "new"
    /\ ~IsExcluded(member)
    /\ visited' = Append(visited, idx)
    /\ reqLog' = <<>>
    /\ call' = SyncCall(MemberLabel(member), member, club.ghlApiKey,
                         club.ghlLocationId, "sale", UNDEF)
    /\ pc' = "search"
    /\ UNCHANGED <<kind, window, ghl, clubIdx, members, ghlAtFetch, idx, results, clubResult,
                   faults, lastOutcome, createdLog>>
    /\ UNCHANGED <<fetchVars, filterVars, masterVars, raceVars>>

\* The bookkeeping after `const result = await syncContactToGHL(...)`.
SyncReturned(action) ==
    /\ clubResult' = CountSyncAction(kind, clubResult, action,
                        <<[email |-> call.contactData.email, action |-> action]>>)
    /\ results' = CountSyncAction(kind, results, action, <<>>)
    /\ createdLog' = IF action = "created"
                     THEN Append(createdLog, <<call.locationId, call.contactData.email>>)
                     ELSE createdLog
    /\ NextRecord(action)

\* A failure that is swallowed: the record counts as updated.
SyncThrewSwallowed(message) ==
    /\ NextRecord("updated")
    /\ UNCHANGED <<clubResult, results, createdLog>>

\* syncContactToGHL throws 'GHL API Error: ...' into the loop's catch.
SyncThrew(message) ==
    /\ CatchMemberError(message)
    /\ UNCHANGED createdLog

----------------------------------------------------------------------------
(* syncContactToGHL, request by request (src/server.js:1092-1236) *)

syncFrame == <<kind, window, clubIdx, members, visited, ghlAtFetch>>

\* The Target may fail a request in transport.
CanFail == faults < MaxFaults

\* Where the call goes after the duplicate search answered.
\* if (searchResponse.data && searchResponse.data.contact) {...}
\* if (contactExists && existingContactId) update else create
AfterSearch(found) == IF found # NoId THEN "get" ELSE "create"

\* POST /contacts/search/duplicate answers.
SyncSearch ==
    /\ pc = "search"
    /\ LET found == GhlSearchDuplicate(ghl, call.locationId, call.contactData.email) IN
       /\ reqLog' = Append(reqLog, Request("search/duplicate", found, TRUE, <<>>, <<>>))
       /\ call' = [call EXCEPT !.existingContactId = found]
       /\ pc' = AfterSearch(found)
    /\ UNCHANGED <<syncFrame, ghl, idx, results, clubResult, faults, lastOutcome, createdLog>>
    /\ UNCHANGED <<fetchVars, filterVars, masterVars, raceVars>>

\* POST /contacts/search/duplicate fails: catch (searchError) only logs,
\* contactExists stays false.
SyncSearchFails ==
    /\ pc = "search" /\ CanFail
    /\ faults' = faults + 1
    /\ reqLog' = Append(reqLog, Request("search/duplicate", NoId, FALSE, <<>>, <<>>))
    /\ pc' = AfterSearch(NoId)
    /\ UNCHANGED <<syncFrame, ghl, idx, call, results, clubResult, lastOutcome, createdLog>>
    /\ UNCHANGED <<fetchVars, filterVars, masterVars, raceVars>>

\* GET /contacts/{existingContactId} answers: the tags to write are computed.
SyncGet ==
    /\ pc = "get"
    /\ LET id == call.existingContactId IN
       /\ reqLog' = Append(reqLog, Request("get", id, TRUE, <<>>, ghl[id]))
       /\ call' = [call EXCEPT !.existingTags = MergeTags(ghl[id].tags, call.customTag)]
    /\ pc' = "put"
    /\ UNCHANGED <<syncFrame, ghl, idx, results, clubResult, faults, lastOutcome, createdLog>>
    /\ UNCHANGED <<fetchVars, filterVars, masterVars, raceVars>>

\* GET /contacts/{existingContactId} fails: throw updateError.
SyncGetFails ==
    /\ pc = "get" /\ CanFail
    /\ faults' = faults + 1
    /\ reqLog' = Append(reqLog, Request("get", call.existingContactId, FALSE, <<>>, <<>>))
    /\ SyncThrew("GHL API Error: Network Error")
    /\ UNCHANGED <<syncFrame, ghl, call>>
    /\ UNCHANGED <<fetchVars, filterVars, masterVars, raceVars>>

\* PUT /contacts/{existingContactId} answers: return {action: 'updated'}.
SyncPut ==
    /\ pc = "put"
    /\ LET id == call.existingContactId
           updateData == UpdateData(call.contactData, call.existingTags) IN
       /\ reqLog' = Append(reqLog, Request("put", id, TRUE, updateData, ghl[id]))
       /\ ghl' = [ghl EXCEPT ![id] = GhlPut(@, updateData)]
    /\ SyncReturned("updated")
    /\ UNCHANGED <<syncFrame, call, faults>>
    /\ UNCHANGED <<fetchVars, filterVars, masterVars, raceVars>>

\* PUT /contacts/{existingContactId} fails: throw updateError.
SyncPutFails ==
    /\ pc = "put" /\ CanFail
    /\ faults' = faults + 1
    /\ reqLog' = Append(reqLog, Request("put", call.existingContactId, FALSE,
                        UpdateData(call.contactData, call.existingTags), <<>>))
    /\ SyncThrew("GHL API Error: Network Error")
    /\ UNCHANGED <<syncFrame, ghl, call>>
    /\ UNCHANGED <<fetchVars, filterVars, masterVars, raceVars>>

\* POST /contacts/ stores the contact: return {action: 'created'}.
SyncCreate ==
    /\ pc = "create"
    /\ GhlDuplicatesOf(ghl, call.contactData) = {}
    /\ reqLog' = Append(reqLog, Request("create", Len(ghl) + 1, TRUE, call.contactData, <<>>))
    /\ ghl' = Append(ghl, GhlCreated(call.contactData))
    /\ SyncReturned("created")
    /\ UNCHANGED <<syncFrame, call, faults>>
    /\ UNCHANGED <<fetchVars, filterVars, masterVars, raceVars>>

\* POST /contacts/ fails with an error that is not a duplicate signal:
\* throw createError.
SyncCreateFails ==
    /\ pc = "create" /\ CanFail
    /\ ~IsDuplicateError("Network Error")
    /\ faults' = faults + 1
    /\ reqLog' = Append(reqLog, Request("create", NoId, FALSE, call.contactData, <<>>))
    /\ SyncThrew("GHL API Error: Network Error")
    /\ UNCHANGED <<syncFrame, ghl, call>>
    /\ UNCHANGED <<fetchVars, filterVars, masterVars, raceVars>>

\* The message of the Target's refusal to store a contact without an email.
InvalidMessage == "email must be an email"

\* POST /contacts/ for a body without an email: the Target may store it
\* (SyncCreate) or refuse it as invalid; the refusal is no duplicate signal:
\* throw createError.
SyncCreateInvalid ==
    /\ pc = "create"
    /\ call.contactData.email = ""
    /\ ~IsDuplicateError(InvalidMessage)
    /\ reqLog' = Append(reqLog, Request("create", NoId, FALSE, call.contactData, <<>>))
    /\ SyncThrew("GHL API Error: " \o InvalidMessage)
    /\ UNCHANGED <<syncFrame, ghl, call, faults>>
    /\ UNCHANGED <<fetchVars, filterVars, masterVars, raceVars>>

\* The message of the Target's refusal to store a second contact.
DuplicateMessage == "This location does not allow duplicated contacts."

\* A recovery that always re-runs the lookup, whatever id was supplied.
AfterDuplicateSearchOnly(duplicateContactId) == "retrysearch"

\* Where the call goes inside catch (createError) for a duplicate signal:
\* if (duplicateContactId) use it, else the fallback search.
AfterDuplicate(duplicateContactId) ==
    IF duplicateContactId # NoId THEN "dupget" ELSE "retrysearch"

\* POST /contacts/ is refused as a duplicate; the refusal may or may not
\* carry meta.contactId.
SyncCreateDuplicate ==
    /\ pc = "create"
    /\ IsDuplicateError(DuplicateMessage)
    /\ \E duplicateContactId \in GhlDuplicatesOf(ghl, call.contactData) \cup {NoId} :
          /\ GhlDuplicatesOf(ghl, call.contactData) # {}
          /\ reqLog' = Append(reqLog, Request("create", duplicateContactId, FALSE,
                                              call.contactData, <<>>))
          /\ call' = [call EXCEPT !.createError = DuplicateMessage,
                                   !.duplicateContactId = duplicateContactId]
          /\ pc' = AfterDuplicate(duplicateContactId)
    /\ UNCHANGED <<syncFrame, ghl, idx, results, clubResult, faults, lastOutcome, createdLog>>
    /\ UNCHANGED <<fetchVars, filterVars, masterVars, raceVars>>

\* GET /contacts/{duplicateContactId} answers.
SyncDupGet ==
    /\ pc = "dupget"
    /\ LET id == call.duplicateContactId IN
       /\ reqLog' = Append(reqLog, Request("get", id, TRUE, <<>>, ghl[id]))
       /\ call' = [call EXCEPT !.existingTags = MergeTags(ghl[id].tags, call.customTag)]
    /\ pc' = "dupput"
    /\ UNCHANGED <<syncFrame, ghl, idx, results, clubResult, faults, lastOutcome, createdLog>>
    /\ UNCHANGED <<fetchVars, filterVars, masterVars, raceVars>>

\* GET /contacts/{duplicateContactId} fails: catch (updateError) only logs
\* and the fallback search follows.
SyncDupGetFails ==
    /\ pc = "dupget" /\ CanFail
    /\ faults' = faults + 1
    /\ reqLog' = Append(reqLog, Request("get", call.duplicateContactId, FALSE, <<>>, <<>>))
    /\ pc' = "retrysearch"
    /\ UNCHANGED <<syncFrame, ghl, idx, call, results, clubResult, lastOutcome, createdLog>>
    /\ UNCHANGED <<fetchVars, filterVars, masterVars, raceVars>>

\* PUT /contacts/{duplicateContactId} answers: return {action: 'updated'}.
SyncDupPut ==
    /\ pc = "dupput"
    /\ LET id == call.duplicateContactId
           updateData == UpdateData(call.contactData, call.existingTags) IN
       /\ reqLog' = Append(reqLog, Request("put", id, TRUE, updateData, ghl[id]))
       /\ ghl' = [ghl EXCEPT ![id] = GhlPut(@, updateData)]
    /\ SyncReturned("updated")
    /\ UNCHANGED <<syncFrame, call, faults>>
    /\ UNCHANGED <<fetchVars, filterVars, masterVars, raceVars>>

\* PUT /contacts/{duplicateContactId} fails: the fallback search follows.
SyncDupPutFails ==
    /\ pc = "dupput" /\ CanFail
    /\ faults' = faults + 1
    /\ reqLog' = Append(reqLog, Request("put", call.duplicateContactId, FALSE,
                        UpdateData(call.contactData, call.existingTags), <<>>))
    /\ pc' = "retrysearch"
    /\ UNCHANGED <<syncFrame, ghl, idx, call, results, clubResult, lastOutcome, createdLog>>
    /\ UNCHANGED <<fetchVars, filterVars, masterVars, raceVars>>

\* const foundContact = retrySearch.data.contacts[0];
FoundContact(contacts) == contacts[1]

\* GET /contacts/?query=email answers with at least one contact.
SyncRetrySearch ==
    /\ pc = "retrysearch"
    /\ \E contacts \in GhlQuery(ghl, call.locationId, call.contactData.email) :
          /\ Len(contacts) > 0
          /\ LET found == FoundContact(contacts) IN
             /\ reqLog' = Append(reqLog, Request("query", found, TRUE, <<>>, contacts))
             /\ call' = [call EXCEPT !.foundContact = found,
                            !.existingTags = MergeTags(ghl[found].tags, call.customTag)]
    /\ pc' = "retryput"
    /\ UNCHANGED <<syncFrame, ghl, idx, results, clubResult, faults, lastOutcome, createdLog>>
    /\ UNCHANGED <<fetchVars, filterVars, masterVars, raceVars>>

\* GET /contacts/?query=email answers with no contact: throw createError.
SyncRetrySearchEmpty ==
    /\ pc = "retrysearch"
    /\ <<>> \in GhlQuery(ghl, call.locationId, call.contactData.email)
    /\ reqLog' = Append(reqLog, Request("query", NoId, TRUE, <<>>, <<>>))
    /\ SyncThrew("GHL API Error: " \o DuplicateMessage)
    /\ UNCHANGED <<syncFrame, ghl, call, faults>>
    /\ UNCHANGED <<fetchVars, filterVars, masterVars, raceVars>>

\* GET /contacts/?query=email fails: catch (retryError) logs, throw createError.
SyncRetrySearchFails ==
    /\ pc = "retrysearch" /\ CanFail
    /\ faults' = faults + 1
    /\ reqLog' = Append(reqLog, Request("query", NoId, FALSE, <<>>, <<>>))
    /\ SyncThrew("GHL API Error: " \o DuplicateMessage)
    /\ UNCHANGED <<syncFrame, ghl, call>>
    /\ UNCHANGED <<fetchVars, filterVars, masterVars, raceVars>>

\* PUT /contacts/{foundContact.id} answers: return {action: 'updated'}.
SyncRetryPut ==
    /\ pc = "retryput"
    /\ LET id == call.foundContact
           updateData == UpdateData(call.contactData, call.existingTags) IN
       /\ reqLog' = Append(reqLog, Request("put", id, TRUE, updateData, ghl[id]))
       /\ ghl' = [ghl EXCEPT ![id] = GhlPut(@, updateData)]
    /\ SyncReturned("updated")
    /\ UNCHANGED <<syncFrame, call, faults>>
    /\ UNCHANGED <<fetchVars, filterVars, masterVars, raceVars>>

\* PUT /contacts/{foundContact.id} fails: catch (retryError), throw createError.
SyncRetryPutFails ==
    /\ pc = "retryput" /\ CanFail
    /\ faults' = faults + 1
    /\ reqLog' = Append(reqLog, Request("put", call.foundContact, FALSE,
                        UpdateData(call.contactData, call.existingTags), <<>>))
    /\ SyncThrew("GHL API Error: " \o DuplicateMessage)
    /\ UNCHANGED <<syncFrame, ghl, call>>
    /\ UNCHANGED <<fetchVars, filterVars, masterVars, raceVars>>

SyncContactToGHL ==
    \/ SyncSearch \/ SyncSearchFails
    \/ SyncGet \/ SyncGetFails \/ SyncPut \/ SyncPutFails
    \/ SyncCreate \/ SyncCreateFails \/ SyncCreateInvalid \/ SyncCreateDuplicate
    \/ SyncDupGet \/ SyncDupGetFails \/ SyncDupPut \/ SyncDupPutFails
    \/ SyncRetrySearch \/ SyncRetrySearchEmpty \/ SyncRetrySearchFails
    \/ SyncRetryPut \/ SyncRetryPutFails

----------------------------------------------------------------------------
(* addTagToContact in the cancelled and past-due loops                      *)
(* (src/server.js:1247-1312, 1873-1917, 2009-2049)                          *)

\* The tag and the custom fields each tag-only endpoint passes.
TagOf(k) == IF k = "cancelled" THEN "cancelled / past member" ELSE "past due"

TagFieldsOf(k, m) ==
    IF k = "cancelled"
    THEN <<[key |-> "cancel_date", value |-> m.personal.memberStatusDate]>>
    ELSE <<>>

\* if (!email) { notFound++; continue; }
TagNoEmail ==
    /\ pc = "loop" /\ idx <= Len(members) /\ IsTagKind(kind)
    /\ Falsy(member.personal.email)
    /\ visited' = Append(visited, idx)
    /\ reqLog' = <<>>
    /\ clubResult' = Inc(clubResult, "notFound")
    /\ results' = Inc(results, "notFound")
    /\ call' = [fn |-> "none"]
    /\ NextRecord("not_found")
    /\ UNCHANGED <<kind, window, ghl, clubIdx, members, ghlAtFetch, faults, createdLog>>
    /\ UNCHANGED <<fetchVars, filterVars, masterVars, raceVars>>

\* await addTagToContact(email, club.ghlApiKey, club.ghlLocationId, tag, fields)
TagBegin ==
    /\ pc = "loop" /\ idx <= Len(members) /\ IsTagKind(kind)
    /\ ~Falsy(member.personal.email)
    /\ visited' = Append(visited, idx)
    /\ reqLog' = <<>>
    /\ call' = [fn |-> "addTagToContact",
                label |-> member.personal.email,
                apiKey |-> club.ghlApiKey,
                locationId |-> club.ghlLocationId,
                customTag |-> TagOf(kind),
                memberEmail |-> member.personal.email,
                customFields |-> TagFieldsOf(kind, member),
                exactMatch |-> NoId,
                existingTags |-> <<>>]
    /\ pc' = "tagsearch"
    /\ UNCHANGED <<kind, window, ghl, clubIdx, members, ghlAtFetch, idx, results, clubResult,
                   faults, lastOutcome, createdLog>>
    /\ UNCHANGED <<fetchVars, filterVars, masterVars, raceVars>>

\* The first contact of the search response, whatever its email.
ExactMatchFirst(dir, contacts, memberEmail) ==
    IF Len(contacts) = 0 THEN NoId ELSE contacts[1]

\* searchResponse.data.contacts.find(c => c.email &&
\*     c.email.toLowerCase() === memberEmail.toLowerCase()), NoId for none.
ExactMatch(dir, contacts, memberEmail) ==
    LET hits == {i \in 1..Len(contacts) :
                    /\ dir[contacts[i]].email # ""
                    /\ ToLowerCase(dir[contacts[i]].email) = ToLowerCase(memberEmail)} IN
    IF hits = {} THEN NoId
    ELSE contacts[CHOOSE i \in hits : \A j \in hits : i <= j]

\* What addTagToContact does with the search response: 'not_found',
\* 'already_tagged', or "put" when it goes on to write.
TagDecision(dir, contacts, memberEmail, customTag) ==
    IF Len(contacts) = 0 THEN "not_found"
    ELSE IF ExactMatch(dir, contacts, memberEmail) = NoId THEN "not_found"
    ELSE IF Includes(dir[ExactMatch(dir, contacts, memberEmail)].tags, customTag)
         THEN "already_tagged"
    ELSE "put"

\* The bookkeeping after `const result = await addTagToContact(...)`.
TagReturned(action) ==
    /\ clubResult' = CountTagAction(clubResult, action,
                        <<[email |-> call.memberEmail, action |-> action]>>)
    /\ results' = CountTagAction(results, action, <<>>)
    /\ NextRecord(action)

\* GET /contacts/?query=memberEmail answers and nothing is to be written.
TagSearchReturns ==
    /\ pc = "tagsearch"
    /\ \E contacts \in GhlQuery(ghl, call.locationId, call.memberEmail) :
          LET decision == TagDecision(ghl, contacts, call.memberEmail, call.customTag) IN
          /\ decision # "put"
          /\ reqLog' = Append(reqLog, Request("query", NoId, TRUE, <<>>, contacts))
          /\ TagReturned(decision)
    /\ UNCHANGED <<syncFrame, ghl, call, faults, createdLog>>
    /\ UNCHANGED <<fetchVars, filterVars, masterVars, raceVars>>

\* GET /contacts/?query=memberEmail answers and the tag is missing:
\* existingTags.push(customTag), then the update follows.
TagSearchFinds ==
    /\ pc = "tagsearch"
    /\ \E contacts \in GhlQuery(ghl, call.locationId, call.memberEmail) :
          LET exactMatch == ExactMatch(ghl, contacts, call.memberEmail) IN
          /\ TagDecision(ghl, contacts, call.memberEmail, call.customTag) = "put"
          /\ reqLog' = Append(reqLog, Request("query", exactMatch, TRUE, <<>>, contacts))
          /\ call' = [call EXCEPT !.exactMatch = exactMatch,
                         !.existingTags = Append(ghl[exactMatch].tags, call.customTag)]
    /\ pc' = "tagput"
    /\ UNCHANGED <<syncFrame, ghl, idx, results, clubResult, faults, lastOutcome, createdLog>>
    /\ UNCHANGED <<fetchVars, filterVars, masterVars, raceVars>>

\* GET /contacts/?query=memberEmail fails: throw 'GHL API Error'.
TagSearchFails ==
    /\ pc = "tagsearch" /\ CanFail
    /\ faults' = faults + 1
    /\ reqLog' = Append(reqLog, Request("query", NoId, FALSE, <<>>, <<>>))
    /\ CatchMemberError("GHL API Error: Network Error")
    /\ UNCHANGED <<syncFrame, ghl, call, createdLog>>
    /\ UNCHANGED <<fetchVars, filterVars, masterVars, raceVars>>

\* const updateData = { tags: existingTags };
\* if (customFields && customFields.length > 0) updateData.customFields = customFields;
TagUpdateData(existingTags, customFields) ==
    IF Len(customFields) > 0
    THEN [tags |-> existingTags, customFields |-> customFields]
    ELSE [tags |-> existingTags]

\* PUT /contacts/{exactMatch.id} answers: return {action: 'tagged'}.
TagPut ==
    /\ pc = "tagput"
    /\ LET id == call.exactMatch
           updateData == TagUpdateData(call.existingTags, call.customFields) IN
       /\ reqLog' = Append(reqLog, Request("put", id, TRUE, updateData, ghl[id]))
       /\ ghl' = [ghl EXCEPT ![id] = GhlPut(@, updateData)]
    /\ TagReturned("tagged")
    /\ UNCHANGED <<syncFrame, call, faults, createdLog>>
    /\ UNCHANGED <<fetchVars, filterVars, masterVars, raceVars>>

\* PUT /contacts/{exactMatch.id} fails: throw 'GHL API Error'.
TagPutFails ==
    /\ pc = "tagput" /\ CanFail
    /\ faults' = faults + 1
    /\ reqLog' = Append(reqLog, Request("put", call.exactMatch, FALSE,
                        TagUpdateData(call.existingTags, call.customFields), <<>>))
    /\ CatchMemberError("GHL API Error: Network Error")
    /\ UNCHANGED <<syncFrame, ghl, call, createdLog>>
    /\ UNCHANGED <<fetchVars, filterVars, masterVars, raceVars>>

AddTagToContact ==
    \/ TagSearchReturns \/ TagSearchFinds \/ TagSearchFails
    \/ TagPut \/ TagPutFails

----------------------------------------------------------------------------
(* The PT loops: fetchMemberByIdFromABC, then syncContactToGHL              *)
(* (src/server.js:945-1034, 2155-2227, 2349-2418)                           *)

\* Answers of GET /{club}/members/{memberId}: a failure, or data with a
\* member, or data without one.
DirectResponses(memberId) ==
    {[ok |-> FALSE, member |-> <<>>], [ok |-> TRUE, member |-> <<>>]}
    \cup {[ok |-> TRUE, member |-> <<m>>] : m \in {d \in SourceDirectory : d.memberId = memberId}}

\* Answers of GET /{club}/members?memberId=: a failure or a members array.
QueryResponses ==
    {[ok |-> FALSE, members |-> <<>>]}
    \cup {[ok |-> TRUE, members |-> ms] : ms \in SeqsUpTo(SourceDirectory, 2)}

\* The member fetchMemberByIdFromABC returns, as a one-element sequence;
\* <<>> when it throws.
FetchMemberById(direct, query, memberId) ==
    IF direct.ok /\ direct.member # <<>> /\ ~Falsy(direct.member[1].memberId)
    THEN direct.member
    ELSE IF ~query.ok THEN <<>>
    ELSE LET exact == SelectSeq(query.members, LAMBDA m : m.memberId = memberId) IN
         IF exact # <<>> THEN <<exact[1]>>
         ELSE IF Len(query.members) = 1 THEN <<query.members[1]>>
         ELSE <<>>

\* `${first || ''} ${last || ''}`.trim()
ServiceEmployee(svc) ==
    LET first == OrEmpty(svc.serviceEmployeeFirstName)
        last  == OrEmpty(svc.serviceEmployeeLastName) IN
    IF first = "" THEN last
    ELSE IF last = "" THEN first
    ELSE first \o " " \o last

\* The tag each PT endpoint passes for a service.
PTTagOf(k, svc) ==
    IF k = "ptdeactivated" THEN "ex pt"
    ELSE IF svc.recurringServiceSubStatus = "Paid in Full" THEN "pt pif" ELSE "pt current"

\* member.ptSignDate = saleDate || '' / member.ptDeactivateDate = inactiveDate || ''
WithPTDate(k, m, svc) ==
    IF k = "ptdeactivated"
    THEN [m EXCEPT !.ptDeactivateDate = svc.recurringServiceDates.inactiveDate]
    ELSE [m EXCEPT !.ptSignDate = svc.recurringServiceDates.saleDate]

\* fetchMemberByIdFromABC throws: catch (serviceError).
PTFetchMemberFails ==
    /\ pc = "loop" /\ idx <= Len(members) /\ IsPTKind(kind)
    /\ \E direct \in DirectResponses(member.memberId), query \in QueryResponses :
          FetchMemberById(direct, query, member.memberId) = <<>>
    /\ visited' = Append(visited, idx)
    /\ reqLog' = <<>>
    /\ call' = [fn |-> "none", label |-> member.memberId]
    /\ clubResult' = CatchInClub(kind, clubResult, member.memberId, "Member not found via any method")
    /\ results' = Inc(results, "errors")
    /\ NextRecord("error")
    /\ UNCHANGED <<kind, window, ghl, clubIdx, members, ghlAtFetch, faults, createdLog>>
    /\ UNCHANGED <<fetchVars, filterVars, masterVars, raceVars>>

\* if (!member || !member.personal?.email) { errors++; action: 'no_email' }
PTNoEmail ==
    /\ pc = "loop" /\ idx <= Len(members) /\ IsPTKind(kind)
    /\ \E direct \in DirectResponses(member.memberId), query \in QueryResponses :
          LET got == FetchMemberById(direct, query, member.memberId) IN
          /\ got # <<>>
          /\ Falsy(got[1].personal.email)
    /\ visited' = Append(visited, idx)
    /\ reqLog' = <<>>
    /\ call' = [fn |-> "none", label |-> member.memberId]
    /\ clubResult' = Push(Inc(clubResult, "errors"), "services",
                          [memberId |-> member.memberId, action |-> "no_email"])
    /\ results' = Inc(results, "errors")
    /\ NextRecord("no_email")
    /\ UNCHANGED <<kind, window, ghl, clubIdx, members, ghlAtFetch, faults, createdLog>>
    /\ UNCHANGED <<fetchVars, filterVars, masterVars, raceVars>>

\* await syncContactToGHL(member, club.ghlApiKey, club.ghlLocationId, ptTag,
\*                        serviceEmployee || null)
PTBeginSync ==
    /\ pc = "loop" /\ idx <= Len(members) /\ IsPTKind(kind)
    /\ \E direct \in DirectResponses(member.memberId), query \in QueryResponses :
          LET got == FetchMemberById(direct, query, member.memberId) IN
          /\ got # <<>>
          /\ ~Falsy(got[1].personal.email)
          /\ call' = SyncCall(member.memberId, WithPTDate(kind, got[1], member),
                              club.ghlApiKey, club.ghlLocationId,
                              PTTagOf(kind, member), ServiceEmployee(member))
    /\ visited' = Append(visited, idx)
    /\ reqLog' = <<>>
    /\ pc' = "search"
    /\ UNCHANGED <<kind, window, ghl, clubIdx, members, ghlAtFetch, idx, results, clubResult,
                   faults, lastOutcome, createdLog>>
    /\ UNCHANGED <<fetchVars, filterVars, masterVars, raceVars>>

Next ==
    \/ ClubFetch \/ ClubFetchFails \/ ClubEnd \/ RunEnd
    \/ NewSkipExcluded \/ NewBeginSync
    \/ SyncContactToGHL
    \/ TagNoEmail \/ TagBegin
    \/ AddTagToContact
    \/ PTFetchMemberFails \/ PTNoEmail \/ PTBeginSync

Spec == SyncInit /\ [][Next]_vars

----------------------------------------------------------------------------
(* The master sync: POST /api/sync-all (src/server.js:2939-3102)            *)

\* The seven syncs in the order the handler posts them, with the key each
\* one's entry gets in masterResults.syncs.
MasterSyncs ==
    << [url |-> "/api/sync",                key |-> "newMembers"],
       [url |-> "/api/sync-cancelled",      key |-> "cancelledMembers"],
       [url |-> "/api/sync-past-due",       key |-> "pastDueMembers"],
       [url |-> "/api/sync-pt-new",         key |-> "newPTServices"],
       [url |-> "/api/sync-pt-deactivated", key |-> "deactivatedPTServices"],
       [url |-> "/api/sync-pif-completed",  key |-> "pifCompleted"],
       [url |-> "/api/sync-employees",      key |-> "employees"] >>

\* const masterResults = {..., syncs: {}}; emailEnabled is fixed at start-up.
MasterInit ==
    /\ mpc = "post"
    /\ masterStep = 1
    /\ masterSyncs = <<>>
    /\ masterLog = <<>>
    /\ emailEnabled \in BOOLEAN
    /\ FetchIdle
    /\ FilterIdle
    /\ SyncIdle
    /\ RaceIdle

\* axios.post(`http://localhost:${PORT}${url}`, {}) is issued and awaited.
MasterPost ==
    /\ mpc = "post" /\ masterStep <= Len(MasterSyncs)
    /\ masterLog' = Append(masterLog, [ev |-> "post", url |-> MasterSyncs[masterStep].url])
    /\ mpc' = "await"
    /\ UNCHANGED <<masterStep, masterSyncs, emailEnabled>>
    /\ UNCHANGED <<fetchVars, filterVars, syncVars, raceVars>>

\* A rejected post ends the master sync at once.
AfterSyncAborting(success) ==
    IF ~success THEN "respond"
    ELSE IF masterStep = Len(MasterSyncs) THEN "email" ELSE "post"

\* Each post sits in its own try/catch, so the handler goes on to the next
\* sync whatever the outcome, and to the summary email after the last one.
AfterSync(success) == IF masterStep = Len(MasterSyncs) THEN "email" ELSE "post"

\* The awaited post resolves ({success: true, results}) or rejects
\* (catch (error): {success: false, error}).
MasterReturn ==
    /\ mpc = "await"
    /\ \E success \in BOOLEAN :
          /\ masterSyncs' = Append(masterSyncs,
                               [key |-> MasterSyncs[masterStep].key, success |-> success])
          /\ masterLog' = Append(masterLog,
                               [ev |-> "return", url |-> MasterSyncs[masterStep].url,
                                success |-> success])
          /\ masterStep' = masterStep + 1
          /\ mpc' = AfterSync(success)
    /\ UNCHANGED emailEnabled
    /\ UNCHANGED <<fetchVars, filterVars, syncVars, raceVars>>

\* await sendMasterSyncEmail(masterResults): nothing when emailEnabled is
\* false; otherwise sgMail.send, whose failure is caught and logged.
SendMasterSyncEmail ==
    /\ mpc = "email"
    /\ \E outcome \in (IF emailEnabled THEN {"sent", "failed"} ELSE {"disabled"}) :
          masterLog' = Append(masterLog, [ev |-> "email", outcome |-> outcome])
    /\ mpc' = "respond"
    /\ UNCHANGED <<masterStep, masterSyncs, emailEnabled>>
    /\ UNCHANGED <<fetchVars, filterVars, syncVars, raceVars>>

\* res.json({success: true, results: masterResults, ...})
MasterRespond ==
    /\ mpc = "respond"
    /\ mpc' = "done"
    /\ UNCHANGED <<masterStep, masterSyncs, masterLog, emailEnabled>>
    /\ UNCHANGED <<fetchVars, filterVars, syncVars, raceVars>>

MasterNext == MasterPost \/ MasterReturn \/ SendMasterSyncEmail \/ MasterRespond

SpecMaster == MasterInit /\ [][MasterNext]_vars

----------------------------------------------------------------------------
(* Two tag operations on one Target contact whose requests interleave: the  *)
(* read of the tag list and the PUT that writes it are separate requests    *)
(* (src/server.js:908-931, 1120-1140, 1279-1306, 2616-2649).                *)

\* The operations that write a tag list, with the tags their callers pass.
RaceCalls ==
    { [fn |-> "syncContactToGHL",    tag |-> "sale"],
      [fn |-> "syncContactToGHL",    tag |-> "ex pt"],
      [fn |-> "addTagToContact",     tag |-> "past due"],
      [fn |-> "addTagToContactById", tag |-> "cancelled / past member"],
      [fn |-> "pifCompleted",        tag |-> "ex pt"],
      [fn |-> "pifCompleted",        tag |-> "pt pif 2 sessions"] }

\* The tag lists the contact may hold before the operations.
RaceSeeds == { <<>>, <<"pt pif">>, <<"pt pif", "ex pt">> }

\* The list written is the new tag alone.
TagsToWriteOnlyNew(c, existingTags) == <<c.tag>>

\* The list an operation writes, from the list it read: the tag is pushed
\* unless the list includes it.
TagsToWrite(c, existingTags) ==
    IF c.fn = "syncContactToGHL" THEN MergeTags(existingTags, c.tag)
    ELSE IF Includes(existingTags, c.tag) THEN existingTags
    ELSE Append(existingTags, c.tag)

\* syncContactToGHL and the PIF check with no sessions left send their PUT
\* whether or not the tag was there; the others return without a write.
WritesWhenPresent(c) ==
    \/ c.fn = "syncContactToGHL"
    \/ c.fn = "pifCompleted" /\ c.tag = "ex pt"

RaceInit ==
    /\ contactTags \in RaceSeeds
    /\ raceOps \in [1..2 -> {[fn |-> c.fn, tag |-> c.tag, pc |-> "read",
                               read |-> <<>>, written |-> <<>>, wrote |-> FALSE] :
                              c \in RaceCalls}]
    /\ FetchIdle
    /\ FilterIdle
    /\ SyncIdle
    /\ MasterIdle

\* The operation's GET answers with the contact's tags and a PUT will follow.
OpRead(p) ==
    /\ raceOps[p].pc = "read"
    /\ WritesWhenPresent(raceOps[p]) \/ ~Includes(contactTags, raceOps[p].tag)
    /\ raceOps' = [raceOps EXCEPT ![p].read = contactTags, ![p].pc = "write"]
    /\ UNCHANGED contactTags
    /\ UNCHANGED <<fetchVars, filterVars, syncVars, masterVars>>

\* The operation's GET answers with tags that include its tag: it returns
\* ('already_tagged') without a PUT.
OpSkip(p) ==
    /\ raceOps[p].pc = "read"
    /\ ~WritesWhenPresent(raceOps[p]) /\ Includes(contactTags, raceOps[p].tag)
    /\ raceOps' = [raceOps EXCEPT ![p].read = contactTags, ![p].pc = "done"]
    /\ UNCHANGED contactTags
    /\ UNCHANGED <<fetchVars, filterVars, syncVars, masterVars>>

\* The operation's PUT {tags: ...} answers: the Target replaces the list.
OpWrite(p) ==
    /\ raceOps[p].pc = "write"
    /\ LET updatedTags == TagsToWrite(raceOps[p], raceOps[p].read) IN
       /\ contactTags' = updatedTags
       /\ raceOps' = [raceOps EXCEPT ![p].written = updatedTags, ![p].wrote = TRUE,
                                     ![p].pc = "done"]
    /\ UNCHANGED <<fetchVars, filterVars, syncVars, masterVars>>

RaceNext == \E p \in 1..2 : OpRead(p) \/ OpSkip(p) \/ OpWrite(p)

SpecRace == RaceInit /\ [][RaceNext]_vars


----------------------------------------------------------------------------
(* Properties: the paginated fetch (SpecFetch) *)

AllPagesFullWithNext == \A i \in 1..Len(pageLog) : pageLog[i] = "full+next"

\* C8: the paginated fetch never requests more than 50 pages; when every
\* page is non-empty and reports a next page, the loop stops after exactly
\* 50 requests, and the fetcher then returns, not throws, the locally
\* filtered records of those 50 pages.
C8_FetchStopsAtPageCap ==
    /\ Len(pageLog) <= PageCap
    /\ (AllPagesFullWithNext /\ Len(pageLog) = PageCap) => ~hasMorePages /\ fpc # "threw"
    /\ (AllPagesFullWithNext /\ Len(pageLog) < PageCap) => hasMorePages /\ fpc = "loop"
    /\ (AllPagesFullWithNext /\ fpc = "returned") =>
          /\ Len(pageLog) = PageCap
          /\ fetchResult = LocalFilter(fetcher, [p \in 1..PageCap |-> PageMember(p)])

C8_Witness ==
    /\ fpc = "returned"
    /\ AllPagesFullWithNext
    /\ Len(pageLog) = PageCap
    /\ fetchResult # <<>>
    /\ Len(fetchResult) < PageCap

----------------------------------------------------------------------------
(* Properties: the date-window filter (SpecFilter) *)

\* A calendar day as a number that orders days chronologically.
DayOrd(ymd) == ymd[1] * 10000 + ymd[2] * 100 + ymd[3]

\* The filters a fetcher applies before its date window.
PassesEarlierFilters(fk, r) ==
    IF fk = "members" THEN r.personal.joinStatus = "Member"
    ELSE IF fk = "cancelled"
         THEN r.personal.joinStatus = "Member" /\ r.personal.isActive \in {BOOL_FALSE, "false"}
    ELSE r.recurringServiceSubStatus # "Paid in Full" /\ r.recurringTypeDesc # "Paid in Full"

\* The text of the date field the window of a fetcher is applied to.
RelevantDate(fk, r) ==
    IF fk = "members" THEN r.agreement.signDate
    ELSE IF fk = "cancelled" THEN r.personal.memberStatusDate
    ELSE r.recurringServiceDates.inactiveDate

\* C9: with both ends of the window given, the filter returns, in order,
\* exactly the records that passed the earlier filters and whose date falls
\* on a calendar day from startDate to endDate, both included; records
\* without the date are dropped and the time of day plays no part.
C9_WindowKeepsExactlyInRange ==
    (filterDone /\ filterWindow.startDay # <<>> /\ filterWindow.endDay # <<>>) =>
        filterOutput = SelectSeq(filterInput, LAMBDA r :
            /\ PassesEarlierFilters(filterKind, r)
            /\ r.day # <<>>
            /\ DayOrd(filterWindow.startDay) <= DayOrd(r.day)
            /\ DayOrd(r.day) <= DayOrd(filterWindow.endDay))

\* A record with a time of day on the last day of the window is kept while
\* another record of the same list is dropped.
C9_Witness ==
    /\ filterDone
    /\ filterWindow.startDay # <<>> /\ filterWindow.endDay # <<>>
    /\ Len(filterInput) = 2 /\ Len(filterOutput) = 1
    /\ filterOutput[1].day = filterWindow.endDay
    /\ Len(RelevantDate(filterKind, filterOutput[1])) > Len(FormatDate(filterWindow.endDay))

----------------------------------------------------------------------------
(* Properties: the sync runs (Spec) *)

\* The call that just ended, or is running, is syncContactToGHL.
InSyncCall == call.fn = "syncContactToGHL"

\* A record has just been dealt with and the loop stands before the next.
RecordDone == pc = "loop" /\ idx >= 2 /\ Len(visited) = idx - 1

Count(seq, x) == Cardinality({i \in 1..Len(seq) : seq[i] = x})

\* The ids of the location's contacts that carry an email.
IdsWithEmail(dir, loc, email) == {i \in IdsIn(dir, loc) : dir[i].email = email}

\* C1: within one run of the new-member sync no (location, email) pair is
\* answered with 'created' twice.
C1_NeverCreatedTwice ==
    kind = "new" =>
        \A i, j \in 1..Len(createdLog) : createdLog[i] = createdLog[j] => i = j

\* The two calls of C2: the club's list is the same member twice, with an
\* email, both records are done and no request failed in transport.
TwiceTheSameMember ==
    /\ kind = "new" /\ RecordDone /\ idx = 3
    /\ Len(members) = 2 /\ members[1] = members[2]
    /\ ~Falsy(members[1].personal.email)
    /\ ~IsExcluded(members[1])
    /\ faults = 0

\* What the two calls of C2 are claimed to leave behind.
CreatedThenUpdated ==
    LET email == members[1].personal.email
        ids   == IdsWithEmail(ghl, club.ghlLocationId, email) IN
    /\ clubResult.syncedMembers = << [email |-> email, action |-> "created"],
                                     [email |-> email, action |-> "updated"] >>
    /\ Cardinality(ids) = 1
    /\ \A i \in ids : Count(ghl[i].tags, "sale") = 1

PutsOnFound ==
    {i \in 1..Len(reqLog) :
        /\ reqLog[i].op = "put"
        /\ call.existingContactId # NoId
        /\ reqLog[i].id = call.existingContactId}

\* C3: when syncContactToGHL found the contact, the tags it writes are the
\* contact's tags, all of them and in their order, with the action tag
\* among them exactly once, appended when it was not there.
C3_TagsAreMerged ==
    InSyncCall =>
        \A i \in PutsOnFound :
            LET before  == IF reqLog[i].ok THEN reqLog[i].before.tags
                           ELSE ghl[reqLog[i].id].tags
                written == reqLog[i].body.tags IN
            /\ SubSeq(written, 1, Len(before)) = before
            /\ Count(written, call.customTag) = 1
            /\ {written[n] : n \in 1..Len(written)}
                  = {before[n] : n \in 1..Len(before)} \cup {call.customTag}

\* A contact tagged 'pt current' is written with 'pt current' and 'sale'.
C3_Witness ==
    /\ InSyncCall /\ RecordDone /\ lastOutcome = "updated"
    /\ \E i \in PutsOnFound :
          /\ reqLog[i].ok
          /\ reqLog[i].before.tags = <<"pt current">>
          /\ reqLog[i].body.tags = <<"pt current", "sale">>
          /\ ghl[reqLog[i].id].tags = <<"pt current", "sale">>

\* The PUT that ended the call with 'updated', if the record ended so.
LastPut == reqLog[Len(reqLog)]

UpdatedByLastPut ==
    /\ InSyncCall /\ RecordDone /\ lastOutcome = "updated"
    /\ reqLog # <<>> /\ LastPut.op = "put" /\ LastPut.ok

\* C4: after an update the contact holds, for every custom-field key of the
\* draft, the draft's value, and for every other key it had, the value it
\* had before.
C4_FieldsOverwrittenOthersKept ==
    UpdatedByLastPut =>
        LET draft  == call.contactData.customFields
            before == LastPut.before.customFields
            after  == ghl[LastPut.id].customFields IN
        /\ \A k \in FieldKeys(draft) :
              k \in DOMAIN after /\ after[k] = FieldValue(draft, k)
        /\ \A k \in DOMAIN before \ FieldKeys(draft) :
              k \in DOMAIN after /\ after[k] = before[k]

\* next_billing_date goes from 2024-01-01 to 2024-02-01 and cancel_date,
\* which the draft does not carry, stays.
C4_Witness ==
    /\ UpdatedByLastPut
    /\ "cancel_date" \in DOMAIN LastPut.before.customFields
    /\ LastPut.before.customFields["next_billing_date"] = "2024-01-01"
    /\ ghl[LastPut.id].customFields["next_billing_date"] = "2024-02-01"
    /\ ghl[LastPut.id].customFields["cancel_date"] = "2023-12-01"

\* The Target's contacts as they were before the last request of the call.
DirBeforeLastPut == [ghl EXCEPT ![LastPut.id] = LastPut.before]

\* C5: whenever the create was refused with a duplicate signal and no
\* request after it failed in transport, the call ends 'updated', the
\* update is applied to a contact the create collided with, and the
\* location holds no second contact with the member's email.
C5_DuplicateEndsUpdated ==
    (/\ InSyncCall /\ RecordDone
     /\ IsDuplicateError(call.createError)
     /\ \A i \in 1..Len(reqLog) : reqLog[i].op # "create" => reqLog[i].ok)
        => /\ lastOutcome = "updated"
           /\ LastPut.op = "put" /\ LastPut.ok
           /\ LastPut.id \in GhlDuplicatesOf(DirBeforeLastPut, call.contactData)
           /\ Cardinality(IdsWithEmail(ghl, call.locationId, call.contactData.email)) <= 1

\* The Source record the loop has just dealt with.
DoneRecord == members[idx - 1]

\* C6: a record without an email ends in an error and no Target request is
\* made for it, in each of the five loops.  (In the PT loops the record is
\* the member fetched for the service; 'no_email' marks its missing email.)
C6_NoEmailIsErrorWithoutRequests ==
    /\ (RecordDone /\ ~IsPTKind(kind) /\ Falsy(DoneRecord.personal.email)
        /\ ~(kind = "new" /\ IsExcluded(DoneRecord)))
          => lastOutcome = "error" /\ reqLog = <<>>
    /\ (RecordDone /\ IsPTKind(kind) /\ lastOutcome = "no_email")
          => reqLog = <<>> /\ results.errors >= 1

\* C7: in the new-member sync a record of an excluded membership type is
\* dealt with in one step that makes no Target request, adds one to
\* skipped and one entry with the reason to skippedMembers, and leaves
\* created, updated, errors and the synced list as they were.
C7_ExcludedStep ==
    (/\ kind = "new" /\ pc = "loop" /\ idx \in 1..Len(members)
     /\ member.agreement.membershipType \in {"NON-MEMBER", "Employee"})
        => /\ pc' = "loop" /\ idx' = idx + 1
           /\ reqLog' = <<>> /\ ghl' = ghl /\ faults' = faults
           /\ results' = [results EXCEPT !.skipped = @ + 1]
           /\ clubResult' = [clubResult EXCEPT
                 !.skipped = @ + 1,
                 !.skippedMembers = Append(@,
                     [email |-> member.personal.email,
                      membershipType |-> member.agreement.membershipType,
                      reason |-> "Excluded membership type"])]

C7_ExcludedOnlySkipped == [][C7_ExcludedStep]_vars

C7_Witness ==
    /\ kind = "new" /\ RecordDone
    /\ DoneRecord.agreement.membershipType = "Employee"
    /\ lastOutcome = "skipped"
    /\ results.skipped = 2
    /\ Len(clubResult.skippedMembers) = 2

\* The errors a club's record counts (a list in /api/sync, a number elsewhere).
ClubErrors(rec) == IF kind = "new" THEN Len(rec.errors) ELSE rec.errors

\* C10: the loop over a club's records moves one record at a time and
\* leaves only after the last one, so that the records are visited once
\* each and in order; a record that fails adds exactly one error to the
\* run's and to the club's count and the loop goes on to the next record.
C10_LoopStep ==
    pc \notin {"club", "done"} =>
        /\ members' = members
        /\ idx' = idx \/ (idx' = idx + 1 /\ pc' = "loop")
        /\ visited' = visited \/ (pc = "loop" /\ visited' = Append(visited, idx))
        /\ pc' = "loop" => visited' = [i \in 1..(idx' - 1) |-> i]
        /\ pc' = "club" => pc = "loop" /\ visited = [i \in 1..Len(members) |-> i]
        /\ (lastOutcome' = "error" /\ idx' # idx) =>
              /\ results'.errors = results.errors + 1
              /\ ClubErrors(clubResult') = ClubErrors(clubResult) + 1

C10_FailureDoesNotStopLoop == [][C10_LoopStep]_vars

\* The first record failed and the second was created or updated.
C10_Witness ==
    /\ kind = "new" /\ RecordDone
    /\ visited = <<1, 2>>
    /\ results.errors = 1 /\ faults = 1
    /\ Len(clubResult.errors) = 1
    /\ lastOutcome \in {"created", "updated"}

\* C11: a lookup of the Target that failed in transport is never taken for
\* "the contact does not exist": after a failed search/duplicate request
\* the same call makes no create request.
C11_LookupFailureNeverCreates ==
    \A i \in 1..Len(reqLog) : \A j \in 1..Len(reqLog) :
        (/\ reqLog[i].op = "search/duplicate" /\ ~reqLog[i].ok
         /\ i < j)
            => reqLog[j].op # "create"

\* C12: the fallback search of the duplicate recovery never guesses: the
\* contact it selects for the update carries exactly the email searched
\* for, or it is the only contact the search returned.
C12_FallbackNeverGuesses ==
    (InSyncCall /\ pc = "retryput") =>
        LET answer == LastPut IN
        /\ answer.op = "query"
        /\ \/ ghl[call.foundContact].email = call.contactData.email
           \/ Len(answer.before) = 1

\* The club whose batch is running, and whether the request log belongs to
\* a record of that batch.
ClubOfBatch == enabledClubs[clubIdx]
InBatchRecord == pc \notin {"club", "done", "idle"} /\ visited # <<>>

\* C13: every Target request made for a record of a club carries that
\* club's own API key and location id, a created contact is placed in that
\* club's location, and every contact read or written by id lies in it.
C13_OwnCredentialsOnly ==
    InBatchRecord =>
        \A i \in 1..Len(reqLog) :
            /\ reqLog[i].apiKey = ClubOfBatch.ghlApiKey
            /\ reqLog[i].locationId = ClubOfBatch.ghlLocationId
            /\ reqLog[i].op = "create" =>
                  reqLog[i].body.locationId = ClubOfBatch.ghlLocationId
            /\ reqLog[i].id \in 1..Len(ghl) =>
                  ghl[reqLog[i].id].locationId = ClubOfBatch.ghlLocationId

\* A record of the second club is written after a record of the first
\* club was.
C13_Witness ==
    /\ InBatchRecord /\ clubIdx = 2 /\ RecordDone
    /\ lastOutcome \in {"created", "updated", "tagged"}
    /\ LastPut.ok /\ LastPut.op \in {"create", "put"}
    /\ LastPut.locationId = "loc-south"
    /\ Len(results.clubs) = 1 /\ Len(members) = 1 /\ FetchedSoFar = 2

\* C14: a club's batch ends either after every fetched record was visited
\* or because the Source fetch failed; a failed fetch visits no record,
\* makes no Target request, records exactly one error for the club and
\* one for the run, and hands over to the next enabled club; the run ends
\* only when every enabled club has its entry in the results.
C14_ClubStep ==
    /\ clubIdx' # clubIdx =>
          /\ clubIdx' = clubIdx + 1 /\ pc' = "club"
          /\ results'.clubs = Append(results.clubs, clubResult')
          /\ \/ /\ pc = "loop"
                /\ visited = [i \in 1..Len(members) |-> i]
                /\ clubResult' = clubResult /\ results'.errors = results.errors
             \/ /\ pc = "club"
                /\ members' = <<>> /\ visited' = <<>> /\ reqLog' = <<>>
                /\ ghl' = ghl /\ faults' = faults /\ createdLog' = createdLog
                /\ ClubErrors(clubResult') = 1
                /\ results'.errors = results.errors + 1
    /\ pc' = "done" =>
          /\ clubIdx > Len(enabledClubs)
          /\ Len(results'.clubs) = Len(enabledClubs)

C14_OnlyFetchFailureAbortsBatch == [][C14_ClubStep]_vars

\* The first club's fetch failed and a record of the second club was
\* processed after it.
C14_Witness ==
    /\ InBatchRecord /\ clubIdx = 2 /\ RecordDone
    /\ Len(results.clubs) = 1
    /\ ClubErrors(results.clubs[1]) = 1
    /\ results.errors = 1 /\ FetchedSoFar = Len(members)
    /\ lastOutcome \in {"created", "updated", "tagged"}

\* The record whose requests are in the log wrote to the Target.
WroteToTarget ==
    \E i \in 1..Len(reqLog) : reqLog[i].op \in {"create", "put"} /\ reqLog[i].ok

\* C15: within a batch the step that begins a record, when the record
\* before it wrote to the Target, is taken from a delay (a timer the loop
\* awaits after the write), never directly from the end of that record.
C15_RecordStep ==
    (/\ visited' # visited /\ visited # <<>>
     /\ WroteToTarget)
        => pc = "delay"

C15_DelayBetweenRecords == [][C15_RecordStep]_vars

\* The Source fields the draft's fixed custom fields are read from, as the
\* Source gave them.
SourceFields(m) ==
    [abc_member_id        |-> m.memberId,
     abc_club_number      |-> m.personal.homeClub,
     barcode              |-> m.personal.barcode,
     birth_date           |-> m.personal.birthDate,
     gender               |-> m.personal.gender,
     member_status        |-> m.personal.memberStatus,
     join_status          |-> m.personal.joinStatus,
     membership_type      |-> m.agreement.membershipType,
     payment_plan         |-> m.agreement.paymentPlan,
     agreement_number     |-> m.agreement.agreementNumber,
     sale_team_member     |-> m.agreement.salesPersonName,
     converted_date       |-> m.agreement.convertedDate,
     member_sign_date     |-> m.agreement.signDate,
     next_billing_date    |-> m.agreement.nextBillingDate,
     is_past_due          |-> m.agreement.isPastDue,
     total_check_in_count |-> m.personal.totalCheckInCount,
     last_check_in        |-> m.personal.lastCheckInTimestamp]

\* The Source records the draft of the current call can have been built from.
DraftSources ==
    IF kind = "new" THEN {members[visited[Len(visited)]]} ELSE SourceDirectory

\* The field of the draft with this key carries the Source's value, and
\* the empty string when the Source has none.
DraftFieldFrom(field, m) ==
    IF field.key = "member_sign_date"
    THEN field.value = SourceFields(m).member_sign_date
    ELSE /\ field.value # UNDEF
         /\ field.value = (IF SourceFields(m)[field.key] = UNDEF
                           THEN "" ELSE SourceFields(m)[field.key])

\* C16: the draft syncContactToGHL builds has the action tag as its only
\* tag, and its customFields list holds every key of the fixed enumeration
\* exactly once, with the Source's value, or the empty string when the
\* Source has none: no key is left out and none is undefined.
C16_DraftIsComplete ==
    (InSyncCall /\ visited # <<>>) =>
        LET draft == call.contactData
            fixed == {FixedFieldKeys[i] : i \in 1..Len(FixedFieldKeys)} IN
        /\ draft.tags = <<call.customTag>>
        /\ call.customTag \in (CASE kind = "new" -> {"sale"}
                                 [] kind = "ptnew" -> {"pt current", "pt pif"}
                                 [] kind = "ptdeactivated" -> {"ex pt"}
                                 [] OTHER -> {})
        /\ \A key \in fixed :
              Cardinality({i \in 1..Len(draft.customFields) :
                              draft.customFields[i].key = key}) = 1
        /\ \E m \in DraftSources :
              \A i \in 1..Len(draft.customFields) :
                 draft.customFields[i].key \in fixed
                    => DraftFieldFrom(draft.customFields[i], m)

\* A draft was built from a record the Source gave neither a billing date
\* nor an email.
C16_Witness ==
    /\ InSyncCall /\ visited # <<>> /\ kind = "new"
    /\ members[visited[Len(visited)]].agreement.nextBillingDate = UNDEF
    /\ members[visited[Len(visited)]].personal.email = UNDEF
    /\ \E i \in 1..Len(call.contactData.customFields) :
          /\ call.contactData.customFields[i].key = "next_billing_date"
          /\ call.contactData.customFields[i].value = ""
    /\ call.contactData.email = ""

\* C17: the tag-only sync reports 'already_tagged', writing nothing, only
\* for a record that carries no custom-field values.
C17_AlreadyTaggedOnlyWithoutFields ==
    (/\ call.fn = "addTagToContact" /\ RecordDone
     /\ lastOutcome = "already_tagged")
        => call.customFields = <<>>

\* The records of the fetched pages a fetcher returned, by member id.
ReturnedIds == {fetchResult[i].memberId : i \in 1..Len(fetchResult)}

C19_ReadRightBeforeUpdate ==
    \A i \in 1..Len(reqLog) :
        reqLog[i].op = "put" =>
            /\ i > 1
            /\ reqLog[i - 1].op = "get" /\ reqLog[i - 1].ok
            /\ reqLog[i - 1].id = reqLog[i].id

\* The positions of the requests of one kind in the current call's log.
RequestsOf(ops) == {i \in 1..Len(reqLog) : reqLog[i].op \in ops}

\* C20: after a create refused as a duplicate, the call never posts a
\* second create; when the refusal supplied a contact id, the next request
\* is the GET of exactly that contact and the PUT after it goes to that
\* contact; the fallback search runs only when no id was supplied or right
\* after a request by that id failed; at most one PUT succeeds and nothing
\* follows it.
C20_RecoveryOrder ==
    (/\ InSyncCall /\ IsDuplicateError(call.createError)
     /\ RequestsOf({"create"}) # {}) =>
        LET n == Len(reqLog)
            c == CHOOSE i \in RequestsOf({"create"}) : TRUE
            suppliedId == reqLog[c].id IN
        /\ RequestsOf({"create"}) = {c}
        /\ ~reqLog[c].ok
        /\ (suppliedId # NoId /\ n > c) =>
              reqLog[c + 1].op = "get" /\ reqLog[c + 1].id = suppliedId
        /\ (suppliedId # NoId /\ n > c + 1 /\ reqLog[c + 1].ok) =>
              reqLog[c + 2].op = "put" /\ reqLog[c + 2].id = suppliedId
        /\ \A i \in RequestsOf({"query"}) :
              /\ i > c
              /\ \/ suppliedId = NoId /\ i = c + 1
                 \/ /\ suppliedId # NoId
                    /\ reqLog[i - 1].op \in {"get", "put"}
                    /\ reqLog[i - 1].id = suppliedId
                    /\ ~reqLog[i - 1].ok
        /\ Cardinality({i \in RequestsOf({"put"}) : reqLog[i].ok}) <= 1
        /\ \A i \in RequestsOf({"put"}) : reqLog[i].ok => i = n

\* A refusal that supplied the id was recovered by reading and updating
\* that contact.
C20_Witness ==
    /\ InSyncCall /\ RecordDone /\ IsDuplicateError(call.createError)
    /\ lastOutcome = "updated"
    /\ Len(reqLog) = 4
    /\ reqLog[2].op = "create" /\ reqLog[2].id # NoId
    /\ reqLog[3].op = "get" /\ reqLog[3].ok
    /\ LastPut.op = "put" /\ LastPut.ok /\ LastPut.id = reqLog[2].id

\* The search of the current call answered with a contact (the found path).
OnFoundPath ==
    /\ reqLog # <<>>
    /\ reqLog[1].op = "search/duplicate" /\ reqLog[1].ok /\ reqLog[1].id # NoId

\* Request i of the current call is a write failure that is not to be
\* recovered: a create refused for another reason than a duplicate, or a
\* failed read or write of the contact the search found.
FinalWriteFailure(i) ==
    /\ ~reqLog[i].ok
    /\ \/ reqLog[i].op = "create" /\ ~IsDuplicateError(call.createError)
       \/ OnFoundPath /\ reqLog[i].op \in {"get", "put"}

\* C21: in syncContactToGHL a create that fails for another reason than a
\* duplicate, or a failed update of the contact the search found, is the
\* record's last Target request, and the record ends as an error that
\* carries the failure's message; no call posts a create twice, and none
\* reads or writes the found contact twice.
C21_WriteFailureIsFinal ==
    (InSyncCall /\ InBatchRecord) =>
        /\ \A i \in 1..Len(reqLog) :
              FinalWriteFailure(i) =>
                 /\ i = Len(reqLog)
                 /\ RecordDone /\ lastOutcome = "error"
                 /\ kind = "new" =>
                       /\ clubResult.errors # <<>>
                       /\ clubResult.errors[Len(clubResult.errors)] \in
                             {[member |-> call.label, error |-> "GHL API Error: " \o reason] :
                                 reason \in {"Network Error", InvalidMessage}}
                 /\ IsPTKind(kind) =>
                       /\ clubResult.services # <<>>
                       /\ clubResult.services[Len(clubResult.services)] \in
                             {[memberId |-> call.label, error |-> "GHL API Error: " \o reason] :
                                 reason \in {"Network Error", InvalidMessage}}
        /\ Cardinality(RequestsOf({"create"})) <= 1
        /\ OnFoundPath =>
              /\ Cardinality(RequestsOf({"get"})) <= 1
              /\ Cardinality(RequestsOf({"put"})) <= 1

\* The update of a found contact failed at the PUT and the record ended
\* as an error.
C21_Witness ==
    /\ InSyncCall /\ InBatchRecord /\ RecordDone /\ kind = "new"
    /\ OnFoundPath /\ Len(reqLog) = 3
    /\ reqLog[2].op = "get" /\ reqLog[2].ok
    /\ reqLog[3].op = "put" /\ ~reqLog[3].ok
    /\ lastOutcome = "error"
    /\ Len(clubResult.errors) = 1

\* C22: when the recovery from a duplicate refusal ends without a
\* successful update (the fallback search fails or finds no contact, or
\* its update fails), the record is counted once as an error by the club
\* and by the run, not as created, updated or tagged, nothing is written
\* to the Target, and the loop moves on to the next record.
C22_RecoveryFailedStep ==
    (/\ pc \in {"retrysearch", "retryput"} /\ pc' = "loop"
     /\ ~(reqLog'[Len(reqLog')].op = "put" /\ reqLog'[Len(reqLog')].ok))
        => /\ lastOutcome' = "error"
           /\ results'.errors = results.errors + 1
           /\ ClubErrors(clubResult') = ClubErrors(clubResult) + 1
           /\ results'.created = results.created
           /\ results'.updated = results.updated
           /\ clubResult'.created = clubResult.created
           /\ clubResult'.updated = clubResult.updated
           /\ IsPTKind(kind) => /\ results'.tagged = results.tagged
                                /\ clubResult'.tagged = clubResult.tagged
           /\ ghl' = ghl /\ createdLog' = createdLog
           /\ idx' = idx + 1 /\ members' = members /\ clubIdx' = clubIdx

C22_FailedRecoveryIsOneError == [][C22_RecoveryFailedStep]_vars

\* The refusal supplied an id, the read by that id failed, the fallback
\* search found no contact; the record is an error and another record of
\* the batch is still to come.
C22_Witness ==
    /\ InSyncCall /\ InBatchRecord /\ RecordDone
    /\ IsDuplicateError(call.createError)
    /\ Len(reqLog) = 4
    /\ reqLog[2].op = "create" /\ reqLog[2].id # NoId
    /\ reqLog[3].op = "get" /\ ~reqLog[3].ok
    /\ reqLog[4].op = "query" /\ reqLog[4].ok /\ reqLog[4].before = <<>>
    /\ lastOutcome = "error" /\ results.errors = 1
    /\ idx <= Len(members)

RECURSIVE SumTo(_, _)
SumTo(f, n) == IF n = 0 THEN 0 ELSE f[n] + SumTo(f, n - 1)

\* The sum of a counter over the clubs' records of the results.
ClubSum(F(_)) ==
    SumTo([i \in 1..Len(results.clubs) |-> F(results.clubs[i])], Len(results.clubs))

\* The records a club's record says were fetched.
ClubTotal(rec) ==
    IF kind = "new" THEN rec.members
    ELSE IF IsTagKind(kind) THEN rec.totalMembers ELSE rec.totalServices

\* The club's fetch failed: nothing fetched and the one error of the catch.
ClubFetchFailed(rec) == ClubTotal(rec) = 0 /\ ClubErrors(rec) = 1

\* The outcome counters of a club's record add up to its fetched records.
ClubBalanced(rec) ==
    IF kind = "new"
    THEN rec.created + rec.updated + rec.skipped + Len(rec.errors) = rec.members
    ELSE IF IsTagKind(kind)
    THEN rec.tagged + rec.alreadyTagged + rec.notFound + rec.errors = rec.totalMembers
    ELSE /\ rec.created + rec.updated + rec.errors = rec.totalServices
         /\ rec.tagged = rec.created + rec.updated

\* C23: between clubs and at the end of a sync, every club whose fetch
\* succeeded has outcome counters that add up to its fetched records, and
\* each counter of the run is the sum of the clubs' counters, the errors
\* including the one error of each club whose fetch failed.
C23_CountersAccountForRecords ==
    pc \in {"club", "done"} =>
        /\ \A i \in 1..Len(results.clubs) :
              ~ClubFetchFailed(results.clubs[i]) => ClubBalanced(results.clubs[i])
        /\ results.errors = ClubSum(ClubErrors)
        /\ FetchedSoFar = ClubSum(ClubTotal)
        /\ kind = "new" =>
              /\ results.created = ClubSum(LAMBDA r : r.created)
              /\ results.updated = ClubSum(LAMBDA r : r.updated)
              /\ results.skipped = ClubSum(LAMBDA r : r.skipped)
        /\ IsTagKind(kind) =>
              /\ results.tagged = ClubSum(LAMBDA r : r.tagged)
              /\ results.alreadyTagged = ClubSum(LAMBDA r : r.alreadyTagged)
              /\ results.notFound = ClubSum(LAMBDA r : r.notFound)
        /\ IsPTKind(kind) =>
              /\ results.created = ClubSum(LAMBDA r : r.created)
              /\ results.updated = ClubSum(LAMBDA r : r.updated)
              /\ results.tagged = ClubSum(LAMBDA r : r.tagged)

\* A cancelled-member sync has ended: one club's fetch failed, the other
\* club's two records ended differently, one of them already tagged.
C23_Witness ==
    /\ pc = "done" /\ kind = "cancelled"
    /\ Len(results.clubs) = 2
    /\ ClubFetchFailed(results.clubs[1])
    /\ results.clubs[2].totalMembers = 2
    /\ results.alreadyTagged = 1
    /\ results.errors = 1

----------------------------------------------------------------------------
(* C24: the master sync posts its seven syncs strictly one after another in *)
(* the fixed order new members, cancelled members, past-due members, new PT *)
(* services, deactivated PT services, PIF completion, employees: a sync is  *)
(* posted only after the previous one has returned, a failed sync is        *)
(* recorded in the master result and the later ones still run, and the      *)
(* summary email is attempted exactly once, after the last sync; it is sent *)
(* at most once, and not at all when notifications are disabled or the mail *)
(* service refuses it.                                                      *)
MasterEmails == {i \in 1..Len(masterLog) : masterLog[i].ev = "email"}

MasterEmailsSent == {i \in MasterEmails : masterLog[i].outcome = "sent"}

MasterSequential ==
    \A i \in 1..Len(masterLog) :
       IF i <= 2 * Len(MasterSyncs)
       THEN /\ masterLog[i].ev = (IF i % 2 = 1 THEN "post" ELSE "return")
            /\ masterLog[i].url = MasterSyncs[(i + 1) \div 2].url
       ELSE masterLog[i].ev = "email"

MasterRecorded ==
    /\ Len(masterSyncs) = Len(masterLog) \div 2 \/ Len(masterLog) > 2 * Len(MasterSyncs)
    /\ \A i \in 1..Len(masterSyncs) :
          /\ masterSyncs[i].key = MasterSyncs[i].key
          /\ masterSyncs[i].success = masterLog[2 * i].success

----------------------------------------------------------------------------
(* C25: a Source failure on any page is fatal to the fetch: it is the last  *)
(* page request of the fetch, the fetch throws ('ABC API Error') and hands  *)
(* no list to its caller.  A fetch that returns had no failed page and      *)
(* returns the local filter applied to the records of every page it         *)
(* requested, so the caller never gets a partial list.                      *)
RECURSIVE PagesUpTo(_)
PagesUpTo(n) ==
    IF n = 0 THEN <<>>
    ELSE PagesUpTo(n - 1)
         \o (IF pageLog[n] = "fail" THEN <<>> ELSE PageData(n, pageLog[n]).members)

C25_PageFailureIsFatal ==
    /\ \A i \in 1..Len(pageLog) :
          pageLog[i] = "fail" => i = Len(pageLog) /\ fpc = "threw"
    /\ fpc \in {"loop", "threw"} => fetchResult = <<>>
    /\ fpc = "returned" =>
          fetchResult = LocalFilter(fetcher, PagesUpTo(Len(pageLog)))

C25_Witness ==
    /\ fpc = "threw"
    /\ LocalFilter(fetcher, allMembers) # <<>>
    /\ Len(pageLog) >= 3

----------------------------------------------------------------------------
(* C26: a tag-only sync (cancelled, past due) never creates a Target        *)
(* contact: addTagToContact sends only a search and at most one update.     *)
(* The update goes to a contact of the search response whose email equals   *)
(* the member's case-insensitively; when the search answered and holds no   *)
(* such contact the outcome is 'not_found' and the search is the call's     *)
(* only request.                                                            *)
SameEmail(contact, memberEmail) ==
    contact.email # "" /\ ToLowerCase(contact.email) = ToLowerCase(memberEmail)

ResponseMatches(i) ==
    {j \in 1..Len(reqLog[i].before) : SameEmail(ghl[reqLog[i].before[j]], call.memberEmail)}

C26_TagOnlyNeverCreates ==
    /\ IsTagKind(kind) =>
          /\ createdLog = <<>>
          /\ \A i \in 1..Len(reqLog) : reqLog[i].op \in {"query", "put"}
    /\ (call.fn = "addTagToContact" /\ reqLog # <<>>) =>
          /\ reqLog[1].op = "query"
          /\ RequestsOf({"query"}) = {1}
          /\ RequestsOf({"put"}) \subseteq {2}
          /\ RequestsOf({"put"}) # {} =>
                /\ reqLog[1].ok
                /\ \E j \in ResponseMatches(1) : reqLog[1].before[j] = reqLog[2].id
          /\ (RecordDone /\ reqLog[1].ok /\ ResponseMatches(1) = {}) =>
                lastOutcome = "not_found" /\ Len(reqLog) = 1

\* A past-due member whose address differs from the contact's in letter
\* case only was tagged, after another record of the batch was not found.
C26_Witness ==
    /\ call.fn = "addTagToContact" /\ RecordDone
    /\ lastOutcome = "tagged"
    /\ call.memberEmail # ghl[reqLog[2].id].email
    /\ clubResult.notFound >= 1

----------------------------------------------------------------------------
(* C27: when two overlapping operations have both updated the same contact  *)
(* with different tags, the contact's tag list holds both tags.             *)
C27_BothTagsSurvive ==
    (/\ \A p \in 1..2 : raceOps[p].pc = "done" /\ raceOps[p].wrote
     /\ raceOps[1].tag # raceOps[2].tag)
        => \A p \in 1..2 : Includes(contactTags, raceOps[p].tag)

(* C28: no operation removes a tag: the tag list an operation writes holds  *)
(* every tag of the list the operation read before, and holds no tag twice  *)
(* when the list read held none twice.                                      *)
NoTagTwice(tags) == \A i, j \in 1..Len(tags) : tags[i] = tags[j] => i = j

C28_WritesKeepTags ==
    \A p \in 1..Len(raceOps) :
        raceOps[p].wrote =>
            /\ \A i \in 1..Len(raceOps[p].read) :
                  Includes(raceOps[p].written, raceOps[p].read[i])
            /\ Includes(raceOps[p].written, raceOps[p].tag)
            /\ NoTagTwice(raceOps[p].read) => NoTagTwice(raceOps[p].written)

C28_Witness ==
    /\ \A p \in 1..2 : raceOps[p].pc = "done" /\ raceOps[p].wrote
    /\ raceOps[1].fn = "pifCompleted" /\ raceOps[2].fn = "addTagToContactById"
    /\ Len(raceOps[2].read) >= 2
    /\ Includes(raceOps[1].read, raceOps[1].tag)

----------------------------------------------------------------------------
(* C29: the new-member sync hands to syncContactToGHL only records whose    *)
(* signDate lies inside the window of the request: not before startDate     *)
(* when the request (or the default) names one, not after endDate when it   *)
(* names one.                                                               *)
SignDay(m) == SplitT0(m.agreement.signDate)

InRequestedWindow(m) ==
    /\ m.agreement.signDate # <<>>
    /\ window.startDate # <<>> => StrGe(SignDay(m), window.startDate)
    /\ window.endDate # <<>> => StrLe(SignDay(m), window.endDate)

C29_SyncedRecordsInWindow ==
    (kind = "new" /\ pc = "search") => InRequestedWindow(member)

----------------------------------------------------------------------------
(* C30: in the PT syncs the member handed to syncContactToGHL for a service *)
(* is the member whose memberId the service names.                          *)
C30_FetchedMemberOwnsService ==
    (IsPTKind(kind) /\ pc = "search") =>
        FieldValue(call.contactData.customFields, "abc_member_id") = member.memberId

====
